---- MODULE Spec2Model ----
(***************************************************************************)
(* crumb: the hierarchical task store (services/tasks.ts over the SQLite   *)
(* table of db.ts), its undo stack and its batch applier, and the          *)
(* surfaces that drive it: the interactive frontend (app.tsx with          *)
(* InputBar, AIPrompt and TaskTree), the command line (index.ts) and the   *)
(* instruction processor (services/ai.ts).                                 *)
(*                                                                         *)
(* The table is a sequence of rows in rowid order: an INSERT appends (new  *)
(* rowid = max rowid + 1), an UPDATE keeps the row's place, and            *)
(* `SELECT * FROM tasks` scans in rowid order.  The parent reference       *)
(* (parent_id REFERENCES tasks(id) ON DELETE CASCADE, foreign_keys = ON)   *)
(* is an immediate constraint: it is checked at the end of every           *)
(* statement, and a statement that violates it raises and changes nothing. *)
(***************************************************************************)
EXTENDS Integers, Sequences, FiniteSets, TLC

VARIABLES tasks, undoStack, nextId, clock, last, mark, app, aiPrompt

vars == <<tasks, undoStack, nextId, clock, last, mark, app, aiPrompt>>

(***************************************************************************)
(* Bounds of the model.                                                    *)
(***************************************************************************)
MaxIds == 3          \* ids (ULIDs) handed out in one behaviour of Spec
MaxUndoIds == 2      \* ids handed out in one behaviour of SpecUndo
MaxPos == 2          \* largest position a row may get
MaxStack == 1        \* snapshots held at once in the explored behaviours
MaxPending == 1      \* mutations explored between a snapshot and its undo
MaxBatch == 2        \* operations in one batch
MaxBatchIds == 2     \* ids handed out in one behaviour of SpecBatch
MaxWrites == 2       \* writes of a call before a storage failure interrupts it
MaxText == 2         \* characters of a text typed into the frontend
MaxArg == 1          \* characters of a title passed on the command line or in a batch
MaxUiStack == 1      \* snapshots the frontend holds in the explored behaviours
MaxTitleIds == 2     \* ids handed out in one behaviour of SpecTitles
MaxPromptIds == 2    \* ids handed out in one behaviour of SpecPrompt
MaxPrompts == 2      \* times the AI prompt is opened by one process
MaxKeyIds == 3       \* ids handed out in one behaviour of SpecKeys
MaxCursorIds == 3    \* ids handed out in one behaviour of SpecCursor
MaxTreeRows == 3     \* rows of a record set handed to getTasks in SpecTree
MaxTreePos == 1      \* largest position in such a record set

(***************************************************************************)
(* Program constants and value domains.                                    *)
(***************************************************************************)
MAX_UNDO == 50

Null == 0                       \* SQL NULL / JS null, undefined
Empty == -1                     \* the empty string used as an id
Ghost == MaxIds + 1             \* a well-formed id that is never handed out
TempIds == {101}                \* "temp_1"

\* Texts are sequences of characters; " " stands for every white space
\* character and "a" for every other one.
Chars == {" ", "a"}
Whitespace == {" "}
TextsUpTo(n) == UNION {[1..k -> Chars] : k \in 0..n}
Texts == TextsUpTo(MaxText)
Args == TextsUpTo(MaxArg)

\* String.prototype.trim
RECURSIVE trimStart(_)
trimStart(s) ==
    IF s # << >> /\ Head(s) \in Whitespace THEN trimStart(Tail(s)) ELSE s

RECURSIVE trimEnd(_)
trimEnd(s) ==
    IF s # << >> /\ s[Len(s)] \in Whitespace
    THEN trimEnd(SubSeq(s, 1, Len(s) - 1))
    ELSE s

trim(s) == trimEnd(trimStart(s))

Max(S) == CHOOSE x \in S : \A y \in S : y <= x

Min(S) == CHOOSE x \in S : \A y \in S : x <= y

(***************************************************************************)
(* The table.                                                              *)
(***************************************************************************)
IdsOf(t) == {t[i].id : i \in DOMAIN t}

HasId(t, id) == \E i \in DOMAIN t : t[i].id = id

RowOf(t, id) == t[CHOOSE i \in DOMAIN t : t[i].id = id]

RowSet(t) == {t[i] : i \in DOMAIN t}

Res(t, ok) == [t |-> t, ok |-> ok]

\* A mutated foreign-key check that accepts every row.
FKOff(t, row) == TRUE

\* parent_id TEXT REFERENCES tasks(id), foreign_keys = ON: the row's parent is
\* NULL or the id of a row of the table, the row itself included.
FKHolds(t, row) ==
    \/ row.parent_id = Null
    \/ row.parent_id = row.id
    \/ HasId(t, row.parent_id)

\* INSERT INTO tasks: id is the primary key; the row goes to the end.
Insert(t, row) ==
    IF ~HasId(t, row.id) /\ FKHolds(t, row)
    THEN Res(Append(t, row), TRUE)
    ELSE Res(t, FALSE)

\* A mutated position query that always answers the first position.
maxPosFirst(t, parentId) ==
    0

\* A mutated position query that counts the members of the group.
maxPosCount(t, parentId) ==
    Cardinality({j \in DOMAIN t : t[j].parent_id = parentId})

\* SELECT COALESCE(MAX(position), -1) + 1 FROM tasks WHERE parent_id IS ?
maxPos(t, parentId) ==
    LET ps == {t[i].position : i \in {j \in DOMAIN t : t[j].parent_id = parentId}}
    IN  IF ps = {} THEN 0 ELSE Max(ps) + 1

\* UPDATE tasks SET ... WHERE id = ?  (row: the updated row)
SetRow(t, id, row) ==
    [i \in DOMAIN t |-> IF t[i].id = id THEN row ELSE t[i]]

(***************************************************************************)
(* CRUD.                                                                   *)
(***************************************************************************)
addTask(t, id, title, parentId, now) ==
    Insert(t, [id |-> id, title |-> title, status |-> "todo",
               parent_id |-> parentId, position |-> maxPos(t, parentId),
               created_at |-> now, updated_at |-> now])

updateTitle(t, id, title, now) ==
    [i \in DOMAIN t |-> IF t[i].id = id
                         THEN [t[i] EXCEPT !.title = title, !.updated_at = now]
                         ELSE t[i]]

updateStatus(t, id, status, now) ==
    [i \in DOMAIN t |-> IF t[i].id = id
                         THEN [t[i] EXCEPT !.status = status, !.updated_at = now]
                         ELSE t[i]]

\* A mutated cascade that stops at the direct children.
cascadeShallow(t, S) ==
    S \cup {t[i].id : i \in {j \in DOMAIN t : t[j].parent_id \in S}}

\* ON DELETE CASCADE: every row whose parent is deleted is deleted too.
RECURSIVE cascade(_, _)
cascade(t, S) ==
    LET more == {t[i].id : i \in {j \in DOMAIN t : t[j].parent_id \in S}}
    IN  IF more \subseteq S THEN S ELSE cascade(t, S \cup more)

\* A mutated delete that marks the parent done when the children it is left
\* with are all done.
deleteTaskPropagating(t, id) ==
    IF ~HasId(t, id) THEN t
    ELSE LET gone == cascade(t, {id})
             p == RowOf(t, id).parent_id
             u == SelectSeq(t, LAMBDA r : r.id \notin gone)
             left == {j \in DOMAIN u : u[j].parent_id = p}
         IN  IF p # Null /\ left # {} /\ \A j \in left : u[j].status = "done"
             THEN [i \in DOMAIN u |-> IF u[i].id = p
                                      THEN [u[i] EXCEPT !.status = "done"]
                                      ELSE u[i]]
             ELSE u

deleteTask(t, id) ==
    IF ~HasId(t, id) THEN t
    ELSE LET gone == cascade(t, {id})
         IN  SelectSeq(t, LAMBDA r : r.id \notin gone)

clearAllTasks(t) == << >>

(***************************************************************************)
(* Completion and its upward propagation.                                  *)
(***************************************************************************)
ChildIdx(t, parentId) == {j \in DOMAIN t : t[j].parent_id = parentId}

\* SELECT COUNT(*) AS total, SUM(CASE WHEN status = 'done' ...) AS done
\*   FROM tasks WHERE parent_id = ?
getChildrenCount(t, parentId) ==
    [total |-> Cardinality(ChildIdx(t, parentId)),
     done  |-> Cardinality({j \in ChildIdx(t, parentId) : t[j].status = "done"})]

Walk(t, steps, diverged) == [t |-> t, steps |-> steps, diverged |-> diverged]

\* A mutated propagation that marks the parent and does not go on to its parent.
autoCompleteOnce(t, childId, now, n) ==
    IF ~HasId(t, childId) \/ RowOf(t, childId).parent_id = Null
    THEN Walk(t, n, FALSE)
    ELSE LET parentId == RowOf(t, childId).parent_id
             stats == getChildrenCount(t, parentId)
         IN  IF stats.total > 0 /\ stats.total = stats.done
             THEN Walk(updateStatus(t, parentId, "done", now), n + 1, FALSE)
             ELSE Walk(t, n + 1, FALSE)

\* autoCompleteParent(childId), n ancestors visited so far.  The recursion has
\* no other exit than a parentless task or a parent with a child that is not
\* done.  A walk that visits more ancestors than there are rows is on a cycle of
\* parent references all of whose members pass the test, and passes it forever
\* (statuses only turn to done): the call never returns, and ends as a stack
\* overflow (diverged).
RECURSIVE autoCompleteParent(_, _, _, _)
autoCompleteParent(t, childId, now, n) ==
    IF ~HasId(t, childId) \/ RowOf(t, childId).parent_id = Null
    THEN Walk(t, n, FALSE)
    ELSE LET parentId == RowOf(t, childId).parent_id
             stats == getChildrenCount(t, parentId)
         IN  IF stats.total > 0 /\ stats.total = stats.done
             THEN LET marked == updateStatus(t, parentId, "done", now)
                  IN  IF n + 1 > Len(t)
                      THEN Walk(marked, n + 1, TRUE)
                      ELSE autoCompleteParent(marked, parentId, now, n + 1)
             ELSE Walk(t, n + 1, FALSE)

completeTask(t, id, now) ==
    autoCompleteParent(updateStatus(t, id, "done", now), id, now, 0)

(***************************************************************************)
(* Structure: move, reorder, indent, outdent.                              *)
(***************************************************************************)
\* UPDATE tasks SET parent_id = ?, position = ?, updated_at = ... WHERE id = ?
\* No row matches a missing id; a row whose new parent is missing raises.
\* A mutated moveTask that rejects an id that is not stored.
moveTaskStrict(t, id, newParentId, now) ==
    IF ~HasId(t, id) THEN Res(t, FALSE)
    ELSE LET row == [RowOf(t, id) EXCEPT !.parent_id = newParentId,
                                         !.position = maxPos(t, newParentId),
                                         !.updated_at = now]
         IN  IF FKHolds(t, row)
             THEN Res(SetRow(t, id, row), TRUE)
             ELSE Res(t, FALSE)

moveTask(t, id, newParentId, now) ==
    IF ~HasId(t, id) THEN Res(t, TRUE)
    ELSE LET row == [RowOf(t, id) EXCEPT !.parent_id = newParentId,
                                         !.position = maxPos(t, newParentId),
                                         !.updated_at = now]
         IN  IF FKHolds(t, row)
             THEN Res(SetRow(t, id, row), TRUE)
             ELSE Res(t, FALSE)

\* SELECT * FROM tasks WHERE parent_id IS ? ORDER BY position ASC: the indexes
\* of the group's rows by position, rows of equal position in rowid order.
siblingsOf(t, parentId) ==
    LET G == ChildIdx(t, parentId)
        before(i, j) == \/ t[i].position < t[j].position
                        \/ t[i].position = t[j].position /\ i < j
        rank(j) == Cardinality({i \in G : before(i, j)})
    IN  [k \in 1..Cardinality(G) |-> CHOOSE j \in G : rank(j) = k - 1]

findIndex(sib, t, id) ==
    IF \E k \in DOMAIN sib : t[sib[k]].id = id
    THEN CHOOSE k \in DOMAIN sib : t[sib[k]].id = id
    ELSE 0

Ret(t, ret) == [t |-> t, ret |-> ret]

\* A mutated reorder that makes the first of its two writes only.
reorderTaskHalf(t, id, direction, now) ==
    IF ~HasId(t, id) THEN Ret(t, FALSE)
    ELSE LET task == RowOf(t, id)
             sib == siblingsOf(t, task.parent_id)
             idx == findIndex(sib, t, id)
             swapIdx == IF direction = "up" THEN idx - 1 ELSE idx + 1
         IN  IF idx < 1 \/ swapIdx < 1 \/ swapIdx > Len(sib) THEN Ret(t, FALSE)
             ELSE Ret(SetRow(t, task.id,
                             [task EXCEPT !.position = t[sib[swapIdx]].position,
                                          !.updated_at = now]),
                      TRUE)

reorderTask(t, id, direction, now) ==
    IF ~HasId(t, id) THEN Ret(t, FALSE)
    ELSE LET task == RowOf(t, id)
             sib == siblingsOf(t, task.parent_id)
             idx == findIndex(sib, t, id)
             swapIdx == IF direction = "up" THEN idx - 1 ELSE idx + 1
         IN  IF idx < 1 \/ swapIdx < 1 \/ swapIdx > Len(sib) THEN Ret(t, FALSE)
             ELSE LET other == t[sib[swapIdx]]
                      first == SetRow(t, task.id,
                                      [task EXCEPT !.position = other.position,
                                                   !.updated_at = now])
                  IN  Ret(SetRow(first, other.id,
                                 [other EXCEPT !.position = task.position,
                                               !.updated_at = now]),
                          TRUE)

\* A mutated indent that adopts the first task of a group to itself.
indentTaskSelf(t, id, direction, now) ==
    IF ~HasId(t, id) THEN Ret(t, FALSE)
    ELSE LET task == RowOf(t, id)
         IN  IF direction = "outdent"
             THEN IF task.parent_id = Null \/ ~HasId(t, task.parent_id)
                  THEN Ret(t, FALSE)
                  ELSE Ret(moveTask(t, id, RowOf(t, task.parent_id).parent_id, now).t,
                           TRUE)
             ELSE LET sib == siblingsOf(t, task.parent_id)
                      idx == findIndex(sib, t, id)
                  IN  IF idx <= 1 THEN Ret(moveTask(t, id, id, now).t, TRUE)
                      ELSE Ret(moveTask(t, id, t[sib[idx - 1]].id, now).t, TRUE)

\* A mutated indent that adopts the task to the first sibling of its group.
indentTaskFirst(t, id, direction, now) ==
    IF ~HasId(t, id) THEN Ret(t, FALSE)
    ELSE LET task == RowOf(t, id)
         IN  IF direction = "outdent"
             THEN IF task.parent_id = Null \/ ~HasId(t, task.parent_id)
                  THEN Ret(t, FALSE)
                  ELSE Ret(moveTask(t, id, RowOf(t, task.parent_id).parent_id, now).t,
                           TRUE)
             ELSE LET sib == siblingsOf(t, task.parent_id)
                      idx == findIndex(sib, t, id)
                  IN  IF idx <= 1 THEN Ret(t, FALSE)
                      ELSE Ret(moveTask(t, id, t[sib[1]].id, now).t, TRUE)

\* A mutated outdent that moves the task to the root level.
indentTaskRoot(t, id, direction, now) ==
    IF ~HasId(t, id) THEN Ret(t, FALSE)
    ELSE LET task == RowOf(t, id)
         IN  IF direction = "outdent"
             THEN IF task.parent_id = Null \/ ~HasId(t, task.parent_id)
                  THEN Ret(t, FALSE)
                  ELSE Ret(moveTask(t, id, Null, now).t, TRUE)
             ELSE LET sib == siblingsOf(t, task.parent_id)
                      idx == findIndex(sib, t, id)
                  IN  IF idx <= 1 THEN Ret(t, FALSE)
                      ELSE Ret(moveTask(t, id, t[sib[idx - 1]].id, now).t, TRUE)

indentTask(t, id, direction, now) ==
    IF ~HasId(t, id) THEN Ret(t, FALSE)
    ELSE LET task == RowOf(t, id)
         IN  IF direction = "outdent"
             THEN IF task.parent_id = Null \/ ~HasId(t, task.parent_id)
                  THEN Ret(t, FALSE)
                  ELSE Ret(moveTask(t, id, RowOf(t, task.parent_id).parent_id, now).t,
                           TRUE)
             ELSE LET sib == siblingsOf(t, task.parent_id)
                      idx == findIndex(sib, t, id)
                  IN  IF idx <= 1 THEN Ret(t, FALSE)
                      ELSE Ret(moveTask(t, id, t[sib[idx - 1]].id, now).t, TRUE)

(***************************************************************************)
(* Reading the tree: getTasks and the flattened view.                      *)
(***************************************************************************)
\* A mutated query that returns the rows in rowid order.
byRowid(t) == [k \in 1..Len(t) |-> k]

\* SELECT * FROM tasks ORDER BY position ASC: the indexes of the rows by
\* position, rows of equal position in rowid order.
byPosition(t) ==
    LET before(i, j) == \/ t[i].position < t[j].position
                        \/ t[i].position = t[j].position /\ i < j
        rank(j) == Cardinality({i \in DOMAIN t : before(i, j)})
    IN  [k \in 1..Len(t) |-> CHOOSE j \in DOMAIN t : rank(j) = k - 1]

\* A mutated getTasks that drops the tasks whose parent is not in the map.
getTasksDropOrphans(t) ==
    LET order == byPosition(t)
        ids == [k \in 1..Len(t) |-> t[order[k]].id]
    IN  [roots |-> SelectSeq(ids, LAMBDA id : RowOf(t, id).parent_id = Null),
         children |-> [p \in IdsOf(t) |->
                          SelectSeq(ids, LAMBDA id : RowOf(t, id).parent_id = p)]]

\* getTasks(): the ids of the roots and, for every task, of its children,
\* each list in the order of the query.  A task whose parent is not in the
\* map is a root.
getTasks(t) ==
    LET order == byPosition(t)
        ids == [k \in 1..Len(t) |-> t[order[k]].id]
        isRoot(id) == RowOf(t, id).parent_id = Null \/ ~HasId(t, RowOf(t, id).parent_id)
    IN  [roots |-> SelectSeq(ids, isRoot),
         children |-> [p \in IdsOf(t) |->
                          SelectSeq(ids, LAMBDA id : ~isRoot(id) /\ RowOf(t, id).parent_id = p)]]

\* flattenTasks(tasks, collapsedIds, depth, ancestors) over the tree of
\* getTasks, list being the ids of tasks.
RECURSIVE flattenTasks(_, _, _, _, _, _)

\* A mutated flattenTasks that descends into collapsed tasks too.
flattenTasksExpanded(t, tree, list, collapsedIds, depth, ancestors) ==
    IF list = << >> THEN << >>
    ELSE LET id == Head(list)
             isLast == Len(list) = 1
             children == tree.children[id]
             hasChildren == Len(children) > 0
             entry == [id |-> id, depth |-> depth, isLast |-> isLast,
                       hasChildren |-> hasChildren,
                       doneCount |-> Len(SelectSeq(children,
                                        LAMBDA c : RowOf(t, c).status = "done")),
                       totalCount |-> Len(children),
                       ancestors |-> IF depth = 0 THEN << >> ELSE ancestors]
             below == IF hasChildren
                      THEN flattenTasks(t, tree, children, collapsedIds, depth + 1,
                                        Append(ancestors, isLast))
                      ELSE << >>
         IN  <<entry>> \o below
                       \o flattenTasks(t, tree, Tail(list), collapsedIds, depth, ancestors)

flattenTasks(t, tree, list, collapsedIds, depth, ancestors) ==
    IF list = << >> THEN << >>
    ELSE LET id == Head(list)
             isLast == Len(list) = 1
             children == tree.children[id]
             hasChildren == Len(children) > 0
             entry == [id |-> id, depth |-> depth, isLast |-> isLast,
                       hasChildren |-> hasChildren,
                       doneCount |-> Len(SelectSeq(children,
                                        LAMBDA c : RowOf(t, c).status = "done")),
                       totalCount |-> Len(children),
                       ancestors |-> IF depth = 0 THEN << >> ELSE ancestors]
             below == IF hasChildren /\ id \notin collapsedIds
                      THEN flattenTasks(t, tree, children, collapsedIds, depth + 1,
                                        Append(ancestors, isLast))
                      ELSE << >>
         IN  <<entry>> \o below
                       \o flattenTasks(t, tree, Tail(list), collapsedIds, depth, ancestors)

\* The rows the task list shows with nothing collapsed.
flatView(t) == flattenTasks(t, getTasks(t), getTasks(t).roots, {}, 0, << >>)

(***************************************************************************)
(* Undo.                                                                   *)
(***************************************************************************)
\* undoStack.push(SELECT * FROM tasks); the oldest entry goes past MAX_UNDO.
saveSnapshot(stack, t) ==
    LET pushed == Append(stack, t)
    IN  IF Len(pushed) > MAX_UNDO THEN Tail(pushed) ELSE pushed

\* The inserts of the restore, one statement per snapshot row, in snapshot order.
RECURSIVE insertAll(_, _, _)
insertAll(t, rows, i) ==
    IF i > Len(rows) THEN Res(t, TRUE)
    ELSE LET r == Insert(t, rows[i])
         IN  IF r.ok THEN insertAll(r.t, rows, i + 1) ELSE Res(t, FALSE)

\* db.transaction(DELETE FROM tasks; INSERT each row): a failing insert rolls
\* the transaction back and raises.
restore(t, snapshot) ==
    LET r == insertAll(<< >>, snapshot, 1)
    IN  IF r.ok THEN Res(r.t, TRUE) ELSE Res(t, FALSE)

\* undo(): the snapshot is popped before the restore runs.
undo(stack, t) ==
    IF Len(stack) = 0
    THEN [t |-> t, stack |-> stack, ret |-> FALSE, raised |-> FALSE]
    ELSE LET r == restore(t, stack[Len(stack)])
         IN  [t |-> r.t, stack |-> SubSeq(stack, 1, Len(stack) - 1),
              ret |-> r.ok, raised |-> ~r.ok]

canUndo(stack) == Len(stack) > 0

undoDepth(stack) == Len(stack)

(***************************************************************************)
(* The batch applier.                                                      *)
(***************************************************************************)
OpAdd(id, title, parentId) ==
    [op |-> "add", id |-> id, title |-> title, taskId |-> Null,
     parentId |-> parentId, newParentId |-> Null]
OpDelete(taskId) ==
    [op |-> "delete", id |-> Null, title |-> "", taskId |-> taskId,
     parentId |-> Null, newParentId |-> Null]
OpMove(taskId, newParentId) ==
    [op |-> "move", id |-> Null, title |-> "", taskId |-> taskId,
     parentId |-> Null, newParentId |-> newParentId]
OpUpdate(taskId, title) ==
    [op |-> "update", id |-> Null, title |-> title, taskId |-> taskId,
     parentId |-> Null, newParentId |-> Null]
OpDone(taskId) ==
    [op |-> "done", id |-> Null, title |-> "", taskId |-> taskId,
     parentId |-> Null, newParentId |-> Null]

\* if (!id) return null  -- null, undefined and the empty string are falsy
Falsy(id) == id = Null \/ id = Empty

\* A mutated resolver that ignores the mapping.
resolveVerbatim(idMap, id) == IF Falsy(id) THEN Null ELSE id

\* resolveId: idMap.get(id) ?? id
resolveId(idMap, id) ==
    IF Falsy(id) THEN Null
    ELSE IF id \in DOMAIN idMap THEN idMap[id] ELSE id

Run(t, idMap, nid, ok, over) ==
    [t |-> t, idMap |-> idMap, nid |-> nid, ok |-> ok, over |-> over]

\* One iteration of the loop over the operations.  over: the batch needs more
\* ids than the model hands out.
applyOne(t, idMap, nid, op, now) ==
    CASE op.op = "add" ->
           IF nid > MaxIds THEN Run(t, idMap, nid, TRUE, TRUE)
           ELSE LET r == addTask(t, nid, op.title, resolveId(idMap, op.parentId), now)
                IN  Run(r.t,
                        IF Falsy(op.id) THEN idMap ELSE (op.id :> nid) @@ idMap,
                        nid + 1, r.ok, FALSE)
      [] op.op = "delete" ->
           Run(deleteTask(t, resolveId(idMap, op.taskId)), idMap, nid, TRUE, FALSE)
      [] op.op = "move" ->
           LET r == moveTask(t, resolveId(idMap, op.taskId),
                             resolveId(idMap, op.newParentId), now)
           IN  Run(r.t, idMap, nid, r.ok, FALSE)
      [] op.op = "update" ->
           Run(updateTitle(t, resolveId(idMap, op.taskId), op.title, now),
               idMap, nid, TRUE, FALSE)
      [] op.op = "done" ->
           LET w == completeTask(t, resolveId(idMap, op.taskId), now)
           IN  Run(w.t, idMap, nid, ~w.diverged, FALSE)

RECURSIVE runFrom(_, _, _, _, _, _)
runFrom(t, idMap, nid, ops, i, now) ==
    IF i > Len(ops) THEN Run(t, idMap, nid, TRUE, FALSE)
    ELSE LET r == applyOne(t, idMap, nid, ops[i], now)
         IN  IF r.ok /\ ~r.over THEN runFrom(r.t, r.idMap, r.nid, ops, i + 1, now)
             ELSE r

\* A mutated applier that keeps the writes made before a failing operation.
applyNoRollback(t, nid, ops, now) ==
    LET r == runFrom(t, << >>, nid, ops, 1, now)
    IN  [t |-> r.t, nid |-> r.nid, ok |-> r.ok, over |-> r.over]

\* applyOperations: db.transaction(loop); an operation that raises rolls every
\* write of the batch back.  The ids of a rolled-back batch appear nowhere, so
\* the model hands them out again.
applyOperations(t, nid, ops, now) ==
    LET r == runFrom(t, << >>, nid, ops, 1, now)
    IN  IF r.ok THEN [t |-> r.t, nid |-> r.nid, ok |-> TRUE, over |-> r.over]
        ELSE [t |-> t, nid |-> nid, ok |-> FALSE, over |-> r.over]

(***************************************************************************)
(* The interactive frontend (App, InputBar) and the command line.          *)
(* app.tasks holds the rows that the latest refresh() read; the forest of  *)
(* the React state is getTasks of them.  selectedIndex counts from 0.      *)
(***************************************************************************)
AppMounted(rows) ==
    [tasks |-> rows, selectedIndex |-> 0, collapsedIds |-> {},
     inputMode |-> "none", running |-> TRUE]

\* The AIPrompt component: instance numbers its mounts, pending holds the
\* instances whose executeAI call is in flight.
NoPrompt ==
    [mounted |-> FALSE, instance |-> 0, phase |-> "input",
     operations |-> << >>, errorMsg |-> "", pending |-> {}]

\* const visibleTasks = flattenTasks(tasks, collapsedIds)
flattenForest(t, tree, collapsedIds) ==
    flattenTasks(t, tree, tree.roots, collapsedIds, 0, << >>)

visibleTasks(a) == flattenForest(a.tasks, getTasks(a.tasks), a.collapsedIds)

visibleCount(a) == Len(visibleTasks(a))

\* visibleCount > 0 ? visibleTasks[selectedIndex]?.task : null  -- the id of
\* the selected task, Null when there is none.
taskAt(visible, index) ==
    IF Len(visible) > 0 /\ index \in 0..(Len(visible) - 1)
    THEN visible[index + 1].id
    ELSE Null

selectedTask(a) == taskAt(visibleTasks(a), a.selectedIndex)

\* The effect that runs after a render: a selectedIndex past the last row
\* moves to the last row.
clampTo(a, count) ==
    IF a.selectedIndex >= count /\ count > 0
    THEN [a EXCEPT !.selectedIndex = count - 1]
    ELSE a

clampSelection(a) == clampTo(a, visibleCount(a))

\* InputBar.handleSubmit(val): onSubmit is called with the trimmed value when
\* that is not empty.
handleSubmit(val) == [called |-> Len(trim(val)) > 0, value |-> trim(val)]

(***************************************************************************)
(* The instruction processor (services/ai.ts): what executeAI makes of the *)
(* reply of the external model.  A reply is a kind and the operations it   *)
(* carries: "throw" (query or the stream raises), "unparseable"            *)
(* (extractJSON raises), "silent" (the stream ends without assistant       *)
(* text), "neither" (JSON that is no array and has no operations array),   *)
(* "array" and "object" (the two accepted shapes).                         *)
(***************************************************************************)
Reply(kind, operations) == [kind |-> kind, operations |-> operations]

FailureKinds == {"throw", "unparseable", "silent", "neither"}

\* The replies of the given kinds over a set of operation lists.
Replies(kinds, batches) ==
    {Reply(k, << >>) : k \in kinds \cap FailureKinds}
        \cup {Reply(k, ops) : k \in kinds \ FailureKinds, ops \in batches \cup {<< >>}}

\* executeAI: the promise resolves with the operations of an accepted reply
\* and with [] otherwise; it never rejects.
executeAI(reply) ==
    [operations |-> IF reply.kind \in {"array", "object"} THEN reply.operations ELSE << >>,
     rejected |-> FALSE]

\* A mutated continuation that previews whatever came back.
callAIThenPreview(p, result) ==
    IF result.rejected THEN [p EXCEPT !.phase = "error", !.errorMsg = "failed"]
    ELSE [p EXCEPT !.operations = result.operations, !.phase = "preview"]

\* callAI: the .then and .catch continuations of executeAI on the state of
\* the prompt.
callAIThen(p, result) ==
    IF result.rejected THEN [p EXCEPT !.phase = "error", !.errorMsg = "failed"]
    ELSE IF Len(result.operations) = 0
         THEN [p EXCEPT !.phase = "error", !.errorMsg = "empty"]
         ELSE [p EXCEPT !.operations = result.operations, !.phase = "preview"]

\* numberTasks(getTasks()): the ids in the order of `crumb list`.
getNumbered(t) == [k \in DOMAIN flatView(t) |-> flatView(t)[k].id]

(***************************************************************************)
(* Storage failures: a statement of a call fails after some of the call's  *)
(* writes have run.                                                        *)
(***************************************************************************)
\* db.transaction(fn)(): the writes of fn are committed together, or none of
\* them when fn is interrupted.
transaction(before, after, interrupted) == IF interrupted THEN before ELSE after

Cut(t, w) == [t |-> t, w |-> w]

\* autoCompleteParent(childId) with room for k more writes; w writes made so far.
RECURSIVE autoCompleteCut(_, _, _, _, _)
autoCompleteCut(t, childId, now, k, w) ==
    IF k = 0 \/ ~HasId(t, childId) \/ RowOf(t, childId).parent_id = Null
    THEN Cut(t, w)
    ELSE LET parentId == RowOf(t, childId).parent_id
             stats == getChildrenCount(t, parentId)
         IN  IF stats.total > 0 /\ stats.total = stats.done
             THEN autoCompleteCut(updateStatus(t, parentId, "done", now),
                                  parentId, now, k - 1, w + 1)
             ELSE Cut(t, w)

\* completeTask(id) as far as its first k writes: the UPDATE of id, then the
\* UPDATEs of autoCompleteParent, each committed on its own (no transaction).
completeTaskCut(t, id, now, k) ==
    IF k = 0 THEN Cut(t, 0)
    ELSE autoCompleteCut(updateStatus(t, id, "done", now), id, now, k - 1, 1)

(***************************************************************************)
(* State: tasks is the table, undoStack the snapshots, nextId the next     *)
(* ULID, clock the value of datetime('now'), which stays at its first      *)
(* value in the behaviours explored.  last records the latest call and     *)
(* what it returned; mark remembers the rows at the latest saveSnapshot    *)
(* and how many mutations followed it.                                     *)
(***************************************************************************)
NoMark == [armed |-> FALSE, s |-> << >>, n |-> 0]

Call(op, id, arg, ret, raised) ==
    [op |-> op, id |-> id, arg |-> arg, ret |-> ret, raised |-> raised,
     steps |-> 0, changed |-> 0, batch |-> << >>]

\* The number of ids whose row the call added, removed or changed.
Changed(t, u) ==
    Cardinality({id \in IdsOf(t) \cup IdsOf(u) :
                   \/ ~HasId(t, id)
                   \/ ~HasId(u, id)
                   \/ RowOf(t, id) # RowOf(u, id)})

Seen(call, t, u) == [call EXCEPT !.changed = Changed(t, u)]

PosOk(t) == \A i \in DOMAIN t : t[i].position <= MaxPos

\* A mutation: mark counts it; at most MaxPending of them are explored while a
\* snapshot is held.
Touch ==
    /\ undoStack = << >> \/ mark.n < MaxPending
    /\ mark' = IF undoStack = << >> THEN mark ELSE [mark EXCEPT !.n = @ + 1]

Init ==
    /\ tasks = << >>
    /\ undoStack = << >>
    /\ nextId = 1
    /\ clock = 0
    /\ last = Call("init", Null, Null, FALSE, FALSE)
    /\ mark = NoMark
    /\ app = AppMounted(<< >>)
    /\ aiPrompt = NoPrompt

\* A caller names the ids handed out so far, stored or deleted since; it cannot
\* name a ULID that is yet to be generated.
Known == 1..(nextId - 1)

\* N: the number of ids a behaviour may hand out.
AddTask(N, titles) ==
    \E title \in titles, parentId \in {Null} \cup Known :
        /\ nextId <= N
        /\ \E r \in {addTask(tasks, nextId, title, parentId, clock)} :
               /\ PosOk(r.t)
               /\ tasks' = r.t
               /\ nextId' = IF r.ok THEN nextId + 1 ELSE nextId
               /\ last' = Seen(Call("add", nextId, parentId, r.ok, ~r.ok), tasks, r.t)
        /\ Touch
        /\ UNCHANGED <<app, aiPrompt, undoStack, clock>>

UpdateTitle(titles) ==
    \E id \in Known, title \in titles :
        /\ tasks' = updateTitle(tasks, id, title, clock)
        /\ last' = Seen(Call("rename", id, Null, TRUE, FALSE), tasks, tasks')
        /\ Touch
        /\ UNCHANGED <<app, aiPrompt, undoStack, nextId, clock>>

UpdateStatus ==
    \E id \in Known, status \in {"todo", "done"} :
        /\ tasks' = updateStatus(tasks, id, status, clock)
        /\ last' = Seen(Call("status", id, Null, TRUE, FALSE), tasks, tasks')
        /\ Touch
        /\ UNCHANGED <<app, aiPrompt, undoStack, nextId, clock>>

DeleteTask ==
    \E id \in Known :
        /\ tasks' = deleteTask(tasks, id)
        /\ last' = Seen(Call("delete", id, Null, TRUE, FALSE), tasks, tasks')
        /\ Touch
        /\ UNCHANGED <<app, aiPrompt, undoStack, nextId, clock>>

\* Called outside a transaction: the writes made before a stack overflow stay.
CompleteTask ==
    \E id \in Known :
        \E w \in {completeTask(tasks, id, clock)} :
            /\ tasks' = w.t
            /\ last' = Seen([Call("complete", id, Null, ~w.diverged, w.diverged)
                               EXCEPT !.steps = w.steps], tasks, w.t)
            /\ Touch
            /\ UNCHANGED <<app, aiPrompt, undoStack, nextId, clock>>

MoveTask ==
    \E id \in Known, newParentId \in {Null} \cup Known :
        \E r \in {moveTask(tasks, id, newParentId, clock)} :
            /\ PosOk(r.t)
            /\ tasks' = r.t
            /\ last' = Seen(Call("move", id, newParentId, r.ok, ~r.ok), tasks, r.t)
            /\ Touch
            /\ UNCHANGED <<app, aiPrompt, undoStack, nextId, clock>>

ReorderTask ==
    \E id \in Known, direction \in {"up", "down"} :
        \E r \in {reorderTask(tasks, id, direction, clock)} :
            /\ tasks' = r.t
            /\ last' = Seen(Call(direction, id, Null, r.ret, FALSE), tasks, r.t)
            /\ Touch
            /\ UNCHANGED <<app, aiPrompt, undoStack, nextId, clock>>

IndentTask ==
    \E id \in Known, direction \in {"indent", "outdent"} :
        \E r \in {indentTask(tasks, id, direction, clock)} :
            /\ PosOk(r.t)
            /\ tasks' = r.t
            /\ last' = Seen(Call(direction, id, Null, r.ret, FALSE), tasks, r.t)
            /\ Touch
            /\ UNCHANGED <<app, aiPrompt, undoStack, nextId, clock>>

ClearAllTasks ==
    /\ tasks' = clearAllTasks(tasks)
    /\ last' = Seen(Call("clear", Null, Null, TRUE, FALSE), tasks, tasks')
    /\ Touch
    /\ UNCHANGED <<app, aiPrompt, undoStack, nextId, clock>>

\* saveSnapshot() while fewer than K snapshots are held.
SaveSnapshotUpTo(K) ==
    /\ Len(undoStack) < K
    /\ undoStack' = saveSnapshot(undoStack, tasks)
    /\ last' = Call("snapshot", Null, Null, TRUE, FALSE)
    /\ mark' = [armed |-> TRUE, s |-> tasks, n |-> 0]
    /\ UNCHANGED <<app, aiPrompt, tasks, nextId, clock>>

SaveSnapshot == SaveSnapshotUpTo(MaxStack)

Undo ==
    \E r \in {undo(undoStack, tasks)} :
        /\ tasks' = r.t
        /\ undoStack' = r.stack
        /\ last' = Seen(Call("undo", Null, Len(undoStack), r.ret, r.raised), tasks, r.t)
        /\ mark' = NoMark
        /\ UNCHANGED <<app, aiPrompt, nextId, clock>>

ApplyOperations(N, batches) ==
    \E ops \in batches :
        \E r \in {applyOperations(tasks, nextId, ops, clock)} :
            /\ ~r.over
            /\ r.nid <= N + 1
            /\ PosOk(r.t)
            /\ tasks' = r.t
            /\ nextId' = r.nid
            /\ last' = Seen([Call("batch", Null, Null, r.ok, ~r.ok) EXCEPT !.batch = ops],
                             tasks, r.t)
            /\ Touch
            /\ UNCHANGED <<app, aiPrompt, undoStack, clock>>

\* completeTask(id) interrupted by a storage failure after its k-th write,
\* with a further write still to come.
CompleteTaskFails ==
    \E id \in Known, k \in 1..MaxWrites :
        \E r \in {completeTaskCut(tasks, id, clock, k)} :
            /\ r.w = k
            /\ completeTaskCut(tasks, id, clock, k + 1).w = k + 1
            /\ tasks' = r.t
            /\ last' = Seen(Call("complete_io", id, k, FALSE, TRUE), tasks, r.t)
            /\ Touch
            /\ UNCHANGED <<app, aiPrompt, undoStack, nextId, clock>>

\* reorderTask interrupted inside its transaction (after the first or the
\* second UPDATE): the early returns come before any write.
ReorderTaskFails ==
    \E id \in Known, direction \in {"up", "down"}, k \in 1..2 :
        \E r \in {reorderTask(tasks, id, direction, clock)} :
            /\ r.ret
            /\ tasks' = transaction(tasks, r.t, TRUE)
            /\ last' = Seen(Call("reorder_io", id, k, FALSE, TRUE), tasks, tasks')
            /\ Touch
            /\ UNCHANGED <<app, aiPrompt, undoStack, nextId, clock>>

\* undo() interrupted inside its transaction, after DELETE FROM tasks: the
\* snapshot is popped already.
UndoFails ==
    /\ undoStack # << >>
    /\ tasks' = transaction(tasks, << >>, TRUE)
    /\ undoStack' = SubSeq(undoStack, 1, Len(undoStack) - 1)
    /\ last' = Seen(Call("undo_io", Null, 1, FALSE, TRUE), tasks, tasks')
    /\ mark' = NoMark
    /\ UNCHANGED <<app, aiPrompt, nextId, clock>>

\* applyOperations interrupted inside its transaction after the writes of its
\* first operation.
ApplyOperationsFails(N, batches) ==
    \E ops \in batches :
        \E r \in {applyOperations(tasks, nextId, SubSeq(ops, 1, 1), clock)} :
            /\ r.ok /\ ~r.over
            /\ r.nid <= N + 1
            /\ tasks' = transaction(tasks, r.t, TRUE)
            /\ last' = Seen([Call("batch_io", Null, 1, FALSE, TRUE) EXCEPT !.batch = ops],
                             tasks, tasks')
            /\ Touch
            /\ UNCHANGED <<app, aiPrompt, undoStack, nextId, clock>>

(***************************************************************************)
(* Actions of the frontend.  A key reaches App's handler only while        *)
(* inputMode is 'none'.  A handler that changes the store runs             *)
(* withUndo(fn): saveSnapshot(), fn(), refresh(); the frontend's mutations *)
(* are explored while fewer than MaxUiStack snapshots are held.  A store   *)
(* call that raises inside a handler ends the process.  The undo stack     *)
(* lives in the memory of the process: a launch starts with an empty one.  *)
(***************************************************************************)
CanSave == Len(undoStack) < MaxUiStack

\* The App state after a handler that ran refresh(), or after one that
\* raised.
Refreshed(a, rows, ok) ==
    IF ok THEN clampSelection([a EXCEPT !.tasks = rows])
    ELSE [a EXCEPT !.running = FALSE]

\* A mutated guard that lets App's keys through in every input mode.
ReadyAnyMode ==
    app.running

\* if (inputMode !== 'none') { ...; return; }
Ready ==
    app.running /\ app.inputMode = "none"

\* 'q': exit()
Quit ==
    /\ Ready
    /\ app' = [app EXCEPT !.running = FALSE]
    /\ last' = Call("quit", Null, Null, TRUE, FALSE)
    /\ UNCHANGED <<tasks, undoStack, nextId, clock, mark, aiPrompt>>

\* `crumb` with no arguments: a new process renders App, whose first effect
\* is refresh().
Launch ==
    /\ ~app.running
    /\ app' = AppMounted(tasks)
    /\ aiPrompt' = NoPrompt
    /\ undoStack' = << >>
    /\ last' = Call("launch", Null, Null, TRUE, FALSE)
    /\ mark' = NoMark
    /\ UNCHANGED <<tasks, nextId, clock>>

\* 'a'
OpenAdd ==
    /\ Ready
    /\ app' = [app EXCEPT !.inputMode = "add"]
    /\ last' = Call("open", Null, Null, TRUE, FALSE)
    /\ UNCHANGED <<tasks, undoStack, nextId, clock, mark, aiPrompt>>

\* 'A'
OpenAddChild ==
    /\ Ready
    /\ selectedTask(app) # Null
    /\ app' = [app EXCEPT !.inputMode = "addChild"]
    /\ last' = Call("open", Null, Null, TRUE, FALSE)
    /\ UNCHANGED <<tasks, undoStack, nextId, clock, mark, aiPrompt>>

\* 'e'
OpenEdit ==
    /\ Ready
    /\ selectedTask(app) # Null
    /\ app' = [app EXCEPT !.inputMode = "edit"]
    /\ last' = Call("open", Null, Null, TRUE, FALSE)
    /\ UNCHANGED <<tasks, undoStack, nextId, clock, mark, aiPrompt>>

\* Escape in an InputBar: handleCancel
InputBarCancel ==
    /\ app.running
    /\ app.inputMode \in {"add", "addChild", "edit"}
    /\ app' = [app EXCEPT !.inputMode = "none"]
    /\ last' = Call("cancel", Null, Null, TRUE, FALSE)
    /\ UNCHANGED <<tasks, undoStack, nextId, clock, mark, aiPrompt>>

\* Enter in the InputBar of 'add': handleSubmit, then handleAddSubmit.
HandleAddSubmit(N, vals) ==
    \E val \in vals :
        /\ app.running /\ app.inputMode = "add"
        /\ handleSubmit(val).called
        /\ CanSave /\ nextId <= N
        /\ \E r \in {addTask(tasks, nextId, handleSubmit(val).value, Null, clock)} :
               /\ PosOk(r.t)
               /\ tasks' = r.t
               /\ nextId' = IF r.ok THEN nextId + 1 ELSE nextId
               /\ undoStack' = saveSnapshot(undoStack, tasks)
               /\ app' = IF r.ok
                         THEN [Refreshed(app, r.t, TRUE) EXCEPT !.inputMode = "none"]
                         ELSE Refreshed(app, r.t, FALSE)
               /\ last' = Seen(Call("add", nextId, Null, r.ok, ~r.ok), tasks, r.t)
        /\ UNCHANGED <<clock, mark, aiPrompt>>

\* Enter in the InputBar of 'addChild': handleSubmit, then
\* handleAddChildSubmit.
HandleAddChildSubmit(N, vals) ==
    \E val \in vals :
        /\ app.running /\ app.inputMode = "addChild"
        /\ handleSubmit(val).called
        /\ selectedTask(app) # Null
        /\ CanSave /\ nextId <= N
        /\ \E r \in {addTask(tasks, nextId, handleSubmit(val).value,
                               selectedTask(app), clock)} :
               /\ PosOk(r.t)
               /\ tasks' = r.t
               /\ nextId' = IF r.ok THEN nextId + 1 ELSE nextId
               /\ undoStack' = saveSnapshot(undoStack, tasks)
               /\ app' = IF r.ok
                         THEN clampSelection(
                                [app EXCEPT !.tasks = r.t,
                                            !.collapsedIds = @ \ {selectedTask(app)},
                                            !.inputMode = "none"])
                         ELSE Refreshed(app, r.t, FALSE)
               /\ last' = Seen(Call("add", nextId, selectedTask(app), r.ok, ~r.ok),
                                tasks, r.t)
        /\ UNCHANGED <<clock, mark, aiPrompt>>

\* Enter in the InputBar of 'edit': handleSubmit, then handleEditSubmit.
HandleEditSubmit(vals) ==
    \E val \in vals :
        /\ app.running /\ app.inputMode = "edit"
        /\ handleSubmit(val).called
        /\ selectedTask(app) # Null
        /\ CanSave
        /\ tasks' = updateTitle(tasks, selectedTask(app), handleSubmit(val).value, clock)
        /\ undoStack' = saveSnapshot(undoStack, tasks)
        /\ app' = [Refreshed(app, tasks', TRUE) EXCEPT !.inputMode = "none"]
        /\ last' = Seen(Call("rename", selectedTask(app), Null, TRUE, FALSE), tasks, tasks')
        /\ UNCHANGED <<nextId, clock, mark, aiPrompt>>

\* The effect of the first render: refresh()
FirstRefresh ==
    /\ app.running
    /\ last.op = "init"
    /\ app' = Refreshed(app, tasks, TRUE)
    /\ last' = Call("refresh", Null, Null, TRUE, FALSE)
    /\ UNCHANGED <<tasks, undoStack, nextId, clock, mark, aiPrompt>>

\* 'j' / down arrow
NavDown ==
    /\ Ready
    /\ \E count \in {visibleCount(app)} :
           app' = clampTo([app EXCEPT !.selectedIndex =
                             IF @ + 1 <= count - 1 THEN @ + 1 ELSE count - 1], count)
    /\ last' = Call("nav", Null, Null, TRUE, FALSE)
    /\ UNCHANGED <<tasks, undoStack, nextId, clock, mark, aiPrompt>>

\* 'k' / up arrow
NavUp ==
    /\ Ready
    /\ app' = clampSelection([app EXCEPT !.selectedIndex = Max({@ - 1, 0})])
    /\ last' = Call("nav", Null, Null, TRUE, FALSE)
    /\ UNCHANGED <<tasks, undoStack, nextId, clock, mark, aiPrompt>>

\* ' ': toggle collapse of the selected task
ToggleCollapse ==
    /\ Ready
    /\ \E selected \in {selectedTask(app)} :
           /\ selected # Null
           /\ app' = clampSelection(
                        [app EXCEPT !.collapsedIds =
                           IF selected \in @ THEN @ \ {selected}
                           ELSE @ \cup {selected}])
           /\ last' = Call("collapse", selected, Null, TRUE, FALSE)
    /\ UNCHANGED <<tasks, undoStack, nextId, clock, mark, aiPrompt>>

\* 'J' (down) and 'K' (up): withUndo(() => reorderTask(selectedTask.id,
\* direction)), then the selection moves one row in that direction unless it
\* is on the last (first) row.
ReorderSelected ==
    \E direction \in {"up", "down"} :
        \E selected \in {selectedTask(app)}, count \in {visibleCount(app)} :
            /\ Ready
            /\ selected # Null
            /\ CanSave
            /\ \E r \in {reorderTask(tasks, selected, direction, clock)} :
                   /\ tasks' = r.t
                   /\ undoStack' = saveSnapshot(undoStack, tasks)
                   /\ app' = clampSelection(
                                [app EXCEPT !.tasks = r.t,
                                            !.selectedIndex =
                                               IF direction = "down"
                                               THEN (IF @ < count - 1 THEN @ + 1 ELSE @)
                                               ELSE (IF @ > 0 THEN @ - 1 ELSE @)])
                   /\ last' = Seen(Call(direction, selected, Null, r.ret, FALSE), tasks, r.t)
            /\ UNCHANGED <<nextId, clock, mark, aiPrompt>>

\* '>' (indent) and '<' (outdent): withUndo(() => indentTask(selectedTask.id,
\* direction))
IndentSelected ==
    \E direction \in {"indent", "outdent"} :
        \E selected \in {selectedTask(app)} :
            /\ Ready
            /\ selected # Null
            /\ CanSave
            /\ \E r \in {indentTask(tasks, selected, direction, clock)} :
                   /\ PosOk(r.t)
                   /\ tasks' = r.t
                   /\ undoStack' = saveSnapshot(undoStack, tasks)
                   /\ app' = Refreshed(app, r.t, TRUE)
                   /\ last' = Seen(Call(direction, selected, Null, r.ret, FALSE), tasks, r.t)
            /\ UNCHANGED <<nextId, clock, mark, aiPrompt>>

\* 'd': a selected task that the frontend shows as done goes back to todo by
\* updateTask, any other one is completed by completeTask.
ToggleDone ==
    \E selected \in {selectedTask(app)} :
        /\ Ready
        /\ selected # Null
        /\ CanSave
        /\ undoStack' = saveSnapshot(undoStack, tasks)
        /\ IF RowOf(app.tasks, selected).status = "done"
           THEN /\ tasks' = updateStatus(tasks, selected, "todo", clock)
                /\ app' = Refreshed(app, tasks', TRUE)
                /\ last' = Seen(Call("status", selected, Null, TRUE, FALSE), tasks, tasks')
           ELSE \E w \in {completeTask(tasks, selected, clock)} :
                    /\ tasks' = w.t
                    /\ app' = Refreshed(app, w.t, ~w.diverged)
                    /\ last' = Seen([Call("complete", selected, Null, ~w.diverged, w.diverged)
                                       EXCEPT !.steps = w.steps], tasks, w.t)
        /\ UNCHANGED <<nextId, clock, mark, aiPrompt>>

\* 'u': if (canUndo()) { undo(); refresh(); }
UndoKey ==
    /\ Ready
    /\ canUndo(undoStack)
    /\ \E r \in {undo(undoStack, tasks)} :
           /\ tasks' = r.t
           /\ undoStack' = r.stack
           /\ app' = Refreshed(app, r.t, ~r.raised)
           /\ last' = Seen(Call("undo", Null, Len(undoStack), r.ret, r.raised), tasks, r.t)
    /\ UNCHANGED <<nextId, clock, mark, aiPrompt>>

\* 'x': withUndo(() => deleteTask(selectedTask.id))
DeleteSelected ==
    /\ Ready
    /\ selectedTask(app) # Null
    /\ CanSave
    /\ tasks' = deleteTask(tasks, selectedTask(app))
    /\ undoStack' = saveSnapshot(undoStack, tasks)
    /\ app' = Refreshed(app, tasks', TRUE)
    /\ last' = Seen(Call("delete", selectedTask(app), Null, TRUE, FALSE), tasks, tasks')
    /\ UNCHANGED <<nextId, clock, mark, aiPrompt>>

\* 'g': setSelectedIndex(0)
JumpTop ==
    /\ Ready
    /\ app' = clampSelection([app EXCEPT !.selectedIndex = 0])
    /\ last' = Call("nav", Null, Null, TRUE, FALSE)
    /\ UNCHANGED <<tasks, undoStack, nextId, clock, mark, aiPrompt>>

\* 'G': setSelectedIndex(Math.max(0, visibleCount - 1))
JumpBottom ==
    /\ Ready
    /\ \E count \in {visibleCount(app)} :
           app' = clampTo([app EXCEPT !.selectedIndex = Max({0, count - 1})], count)
    /\ last' = Call("nav", Null, Null, TRUE, FALSE)
    /\ UNCHANGED <<tasks, undoStack, nextId, clock, mark, aiPrompt>>

\* The row that Tab selects: the first row of depth 0 after the selected
\* one, else the first row of depth 0 before it, else the selected one.
nextRootRow(visible, index) ==
    LET after == {i \in (index + 1)..(Len(visible) - 1) : visible[i + 1].depth = 0}
        before == {i \in 0..(index - 1) : visible[i + 1].depth = 0}
    IN  IF after # {} THEN Min(after)
        ELSE IF before # {} THEN Min(before)
        ELSE index

\* Tab: jump to the next root group, wrapping around
TabKey ==
    /\ Ready
    /\ \E visible \in {visibleTasks(app)} :
           app' = clampTo([app EXCEPT !.selectedIndex = nextRootRow(visible, @)],
                          Len(visible))
    /\ last' = Call("nav", Null, Null, TRUE, FALSE)
    /\ UNCHANGED <<tasks, undoStack, nextId, clock, mark, aiPrompt>>

\* 'X'
OpenConfirmClear ==
    /\ Ready
    /\ app' = [app EXCEPT !.inputMode = "confirmClear"]
    /\ last' = Call("open", Null, Null, TRUE, FALSE)
    /\ UNCHANGED <<tasks, undoStack, nextId, clock, mark, aiPrompt>>

\* 'y' or 'Y' in 'confirmClear': withUndo(() => { clearAllTasks();
\* setSelectedIndex(0); })
ConfirmClear ==
    /\ app.running /\ app.inputMode = "confirmClear"
    /\ CanSave
    /\ tasks' = clearAllTasks(tasks)
    /\ undoStack' = saveSnapshot(undoStack, tasks)
    /\ app' = clampSelection([app EXCEPT !.tasks = tasks', !.selectedIndex = 0,
                                         !.inputMode = "none"])
    /\ last' = Seen(Call("clear", Null, Null, TRUE, FALSE), tasks, tasks')
    /\ UNCHANGED <<nextId, clock, mark, aiPrompt>>

\* Any other key in 'confirmClear'
RefuseClear ==
    /\ app.running /\ app.inputMode = "confirmClear"
    /\ app' = [app EXCEPT !.inputMode = "none"]
    /\ last' = Call("cancel", Null, Null, TRUE, FALSE)
    /\ UNCHANGED <<tasks, undoStack, nextId, clock, mark, aiPrompt>>

\* '?'
OpenHelp ==
    /\ Ready
    /\ app' = [app EXCEPT !.inputMode = "help"]
    /\ last' = Call("open", Null, Null, TRUE, FALSE)
    /\ UNCHANGED <<tasks, undoStack, nextId, clock, mark, aiPrompt>>

\* Any key while the help overlay is shown
CloseHelp ==
    /\ app.running /\ app.inputMode = "help"
    /\ app' = [app EXCEPT !.inputMode = "none"]
    /\ last' = Call("cancel", Null, Null, TRUE, FALSE)
    /\ UNCHANGED <<tasks, undoStack, nextId, clock, mark, aiPrompt>>

(***************************************************************************)
(* The AI prompt.  While it is open inputMode is 'ai'; Escape outside      *)
(* 'revise' and a successful apply close (unmount) it.                     *)
(***************************************************************************)
\* '/'
OpenAI ==
    /\ Ready
    /\ aiPrompt.instance < MaxPrompts
    /\ app' = [app EXCEPT !.inputMode = "ai"]
    /\ aiPrompt' = [NoPrompt EXCEPT !.mounted = TRUE,
                                    !.instance = aiPrompt.instance + 1,
                                    !.pending = aiPrompt.pending]
    /\ last' = Call("open", Null, Null, TRUE, FALSE)
    /\ UNCHANGED <<tasks, undoStack, nextId, clock, mark>>

\* Enter on the instruction typed in phase 'input' (handleSubmit) or in phase
\* 'revise' (handleReviseSubmit): callAI sets the phase to 'thinking' and
\* starts executeAI.
PromptSubmit(vals) ==
    \E val \in vals :
        /\ aiPrompt.mounted
        /\ aiPrompt.phase \in {"input", "revise"}
        /\ Len(trim(val)) > 0
        /\ aiPrompt' = [aiPrompt EXCEPT !.phase = "thinking",
                                        !.pending = @ \cup {aiPrompt.instance}]
        /\ last' = Call("ask", aiPrompt.instance, Null, TRUE, FALSE)
        /\ UNCHANGED <<tasks, undoStack, nextId, clock, mark, app>>

\* The promise of executeAI settles for the prompt instance i; the
\* continuation sets state only while that instance is still mounted.
Resolve(replies) ==
    \E i \in aiPrompt.pending, reply \in replies :
        /\ app.running
        /\ aiPrompt' = IF aiPrompt.mounted /\ aiPrompt.instance = i
                       THEN [callAIThen(aiPrompt, executeAI(reply))
                               EXCEPT !.pending = @ \ {i}]
                       ELSE [aiPrompt EXCEPT !.pending = @ \ {i}]
        /\ last' = Call("ai_result", i, reply.kind,
                         Len(executeAI(reply).operations) > 0, executeAI(reply).rejected)
        /\ UNCHANGED <<tasks, undoStack, nextId, clock, mark, app>>

\* Escape in phase 'revise' goes back to the preview.
ReviseEscape ==
    /\ aiPrompt.mounted
    /\ aiPrompt.phase = "revise"
    /\ aiPrompt' = [aiPrompt EXCEPT !.phase = "preview"]
    /\ last' = Call("cancel", Null, Null, TRUE, FALSE)
    /\ UNCHANGED <<tasks, undoStack, nextId, clock, mark, app>>

\* Escape in any other phase: onCancel() closes the prompt.
PromptEscape ==
    /\ aiPrompt.mounted
    /\ aiPrompt.phase # "revise"
    /\ app' = [app EXCEPT !.inputMode = "none"]
    /\ aiPrompt' = [aiPrompt EXCEPT !.mounted = FALSE]
    /\ last' = Call("cancel", Null, Null, TRUE, FALSE)
    /\ UNCHANGED <<tasks, undoStack, nextId, clock, mark>>

\* 'e' in phase 'preview'
PreviewEdit ==
    /\ aiPrompt.mounted
    /\ aiPrompt.phase = "preview"
    /\ aiPrompt' = [aiPrompt EXCEPT !.phase = "revise"]
    /\ last' = Call("revise", Null, Null, TRUE, FALSE)
    /\ UNCHANGED <<tasks, undoStack, nextId, clock, mark, app>>

\* Enter in phase 'error'
ErrorEnter ==
    /\ aiPrompt.mounted
    /\ aiPrompt.phase = "error"
    /\ aiPrompt' = [aiPrompt EXCEPT !.phase = "input"]
    /\ last' = Call("retry", Null, Null, TRUE, FALSE)
    /\ UNCHANGED <<tasks, undoStack, nextId, clock, mark, app>>

\* Enter in phase 'preview': onApply(operations), which is handleAIApply:
\* withUndo(() => applyOperations(ops)), then the prompt closes.
PreviewEnter(N) ==
    /\ aiPrompt.mounted
    /\ aiPrompt.phase = "preview"
    /\ CanSave
    /\ \E r \in {applyOperations(tasks, nextId, aiPrompt.operations, clock)} :
           /\ ~r.over
           /\ r.nid <= N + 1
           /\ PosOk(r.t)
           /\ tasks' = r.t
           /\ nextId' = r.nid
           /\ undoStack' = saveSnapshot(undoStack, tasks)
           /\ app' = IF r.ok
                     THEN [Refreshed(app, r.t, TRUE) EXCEPT !.inputMode = "none"]
                     ELSE Refreshed(app, r.t, FALSE)
           /\ aiPrompt' = [aiPrompt EXCEPT !.mounted = FALSE]
           /\ last' = Seen([Call("batch", Null, Null, r.ok, ~r.ok)
                              EXCEPT !.batch = aiPrompt.operations], tasks, r.t)
    /\ UNCHANGED <<clock, mark>>

\* `crumb add <title>...`, one title at a time: addTask(title), run by
\* another process.
CliAdd(N, titles) ==
    \E title \in titles :
        /\ nextId <= N
        /\ \E r \in {addTask(tasks, nextId, title, Null, clock)} :
               /\ PosOk(r.t)
               /\ tasks' = r.t
               /\ nextId' = IF r.ok THEN nextId + 1 ELSE nextId
               /\ last' = Seen(Call("cli_add", nextId, Null, r.ok, ~r.ok), tasks, r.t)
        /\ UNCHANGED <<undoStack, clock, mark, app, aiPrompt>>

\* `crumb edit <number> <title>`: an absent or empty argument is refused;
\* resolveTask picks the task of that number in the list.
CliEdit(titles) ==
    \E title \in titles, num \in 1..Len(getNumbered(tasks)) :
        /\ title # << >>
        /\ tasks' = updateTitle(tasks, getNumbered(tasks)[num], title, clock)
        /\ last' = Seen(Call("cli_edit", getNumbered(tasks)[num], num, TRUE, FALSE),
                         tasks, tasks')
        /\ UNCHANGED <<undoStack, nextId, clock, mark, app, aiPrompt>>

(***************************************************************************)
(* Spec: the structural operations on up to MaxIds tasks.                  *)
(***************************************************************************)
Next ==
    \/ AddTask(MaxIds, {"a"})
    \/ DeleteTask
    \/ MoveTask
    \/ ReorderTask
    \/ IndentTask
    \/ ClearAllTasks

Spec == Init /\ [][Next]_vars

(***************************************************************************)
(* SpecDone: statuses and completion on every parent relation that         *)
(* addTask and moveTask build on up to MaxIds tasks.                       *)
(***************************************************************************)
NextDone ==
    \/ AddTask(MaxIds, {"a"})
    \/ MoveTask
    \/ UpdateStatus
    \/ CompleteTask

SpecDone == Init /\ [][NextDone]_vars

(***************************************************************************)
(* The batches handed to applyOperations: up to n operations whose id      *)
(* references are drawn from refs and whose adds carry a temporary id of   *)
(* temps or none.                                                          *)
(***************************************************************************)
BatchOps(refs, temps) ==
    LET targets == refs \ {Null, Empty}
    IN  {OpAdd(i, "a", p) : i \in {Null} \cup temps, p \in refs}
        \cup {OpDelete(x) : x \in targets}
        \cup {OpMove(x, p) : x \in targets, p \in refs}
        \cup {OpUpdate(x, "b") : x \in targets}
        \cup {OpDone(x) : x \in targets}

SeqsUpTo(S, n) == UNION {[1..k -> S] : k \in 1..n}

(***************************************************************************)
(* SpecUndo: every operation of the store and the undo stack on up to      *)
(* MaxUndoIds tasks.                                                       *)
(***************************************************************************)
NextUndo ==
    \/ AddTask(MaxUndoIds, {"a"})
    \/ UpdateTitle({"b"})
    \/ UpdateStatus
    \/ DeleteTask
    \/ CompleteTask
    \/ MoveTask
    \/ ReorderTask
    \/ IndentTask
    \/ ClearAllTasks
    \/ ApplyOperations(MaxUndoIds, SeqsUpTo(BatchOps({Null} \cup Known, {}), 1))
    \/ SaveSnapshot
    \/ Undo

SpecUndo == Init /\ [][NextUndo]_vars

(***************************************************************************)
(* SpecBatch: one batch of up to MaxBatch operations applied to every      *)
(* store that addTask, deleteTask and moveTask build on up to MaxBatchIds   *)
(* tasks.                                                                  *)
(* The references of a batch are absent, empty, ids handed out so far      *)
(* (stored or deleted), an id never handed out, or temporary ids.          *)
(***************************************************************************)
Fresh == last.op # "batch"

BatchRefs == {Null, Empty, Ghost} \cup Known \cup TempIds

NextBatch ==
    \/ Fresh /\ AddTask(MaxBatchIds, {"a"})
    \/ Fresh /\ DeleteTask
    \/ Fresh /\ MoveTask
    \/ Fresh /\ ApplyOperations(MaxBatchIds, SeqsUpTo(BatchOps(BatchRefs, TempIds), MaxBatch))

SpecBatch == Init /\ [][NextBatch]_vars

(***************************************************************************)
(* SpecFail: the multi-row operations interrupted by a storage failure, on *)
(* the stores that addTask and updateTask build on up to MaxIds tasks.     *)
(***************************************************************************)
NextFail ==
    \/ AddTask(MaxIds, {"a"})
    \/ UpdateStatus
    \/ SaveSnapshot
    \/ CompleteTaskFails
    \/ ReorderTaskFails
    \/ UndoFails
    \/ ApplyOperationsFails(MaxIds, SeqsUpTo(BatchOps({Null} \cup Known, {}), 1))

SpecFail == Init /\ [][NextFail]_vars

(***************************************************************************)
(* SpecStack: the undo stack filled to MAX_UNDO and beyond.  The store is  *)
(* built by addTask and moveTask on up to MaxUndoIds tasks and changes     *)
(* only while at most MaxStack snapshots are held, so that the oldest      *)
(* snapshot differs from the ones above it.                                *)
(***************************************************************************)
Shallow == Len(undoStack) <= MaxStack

NextStack ==
    \/ Shallow /\ AddTask(MaxUndoIds, {"a"})
    \/ Shallow /\ MoveTask
    \/ SaveSnapshotUpTo(MAX_UNDO + 1)
    \/ Undo

SpecStack == Init /\ [][NextStack]_vars

(***************************************************************************)
(* SpecDelete: deletion among tasks of either status, on up to MaxIds      *)
(* tasks.                                                                  *)
(***************************************************************************)
NextDelete ==
    \/ AddTask(MaxIds, {"a"})
    \/ UpdateStatus
    \/ CompleteTask
    \/ DeleteTask

SpecDelete == Init /\ [][NextDelete]_vars

(***************************************************************************)
(* SpecTitles: the surfaces that create and rename tasks, on up to         *)
(* MaxTitleIds tasks, with every typed text of up to MaxText characters    *)
(* and every passed title of up to MaxArg characters.                      *)
(***************************************************************************)
TitledOps(refs) ==
    {OpAdd(Null, title, p) : title \in Args, p \in {Null} \cup refs}
        \cup {OpUpdate(x, title) : title \in Args, x \in refs}

NextTitles ==
    \/ OpenAdd
    \/ OpenAddChild
    \/ OpenEdit
    \/ InputBarCancel
    \/ HandleAddSubmit(MaxTitleIds, Texts)
    \/ HandleAddChildSubmit(MaxTitleIds, Texts)
    \/ HandleEditSubmit(Texts)
    \/ CliAdd(MaxTitleIds, Args)
    \/ CliEdit(Args)
    \/ ApplyOperations(MaxTitleIds, SeqsUpTo(TitledOps(Known), 1))
    \/ Quit
    \/ Launch

SpecTitles == Init /\ [][NextTitles]_vars

(***************************************************************************)
(* SpecPrompt: the AI prompt, with the failing replies and the replies     *)
(* that carry one operation or none, over the stores that applying them    *)
(* builds on up to MaxPromptIds tasks.                                     *)
(***************************************************************************)
Proposals ==
    SeqsUpTo({OpAdd(Null, "a", p) : p \in {Null} \cup Known}
                \cup {OpDelete(x) : x \in Known}
                \cup {OpDone(x) : x \in Known}, 1)

NextPrompt ==
    \/ DeleteSelected
    \/ OpenAI
    \/ PromptSubmit({<<"a">>})
    \/ Resolve(Replies(FailureKinds \cup {"array", "object"}, Proposals))
    \/ ReviseEscape
    \/ PromptEscape
    \/ PreviewEdit
    \/ ErrorEnter
    \/ PreviewEnter(MaxPromptIds)
    \/ Quit
    \/ Launch

SpecPrompt == Init /\ [][NextPrompt]_vars

(***************************************************************************)
(* SpecPositions: the operations that place tasks (add, move, reorder,     *)
(* indent, outdent), the ones that remove them, one-operation batches and  *)
(* undo, on up to MaxIds tasks.                                            *)
(***************************************************************************)
PlacingOps(refs) ==
    {OpAdd(Null, "a", p) : p \in {Null} \cup refs}
        \cup {OpDelete(x) : x \in refs}
        \cup {OpMove(x, p) : x \in refs, p \in {Null} \cup refs}

NextPositions ==
    \/ AddTask(MaxIds, {"a"})
    \/ MoveTask
    \/ ReorderTask
    \/ IndentTask
    \/ DeleteTask
    \/ ClearAllTasks
    \/ ApplyOperations(MaxIds, SeqsUpTo(PlacingOps(Known), 1))
    \/ SaveSnapshot
    \/ Undo

SpecPositions == Init /\ [][NextPositions]_vars

(***************************************************************************)
(* SpecForest: the store operations behind the frontend's keys (no move to *)
(* a chosen parent, no batch) and undo, on up to MaxIds tasks.             *)
(***************************************************************************)
NextForest ==
    \/ AddTask(MaxIds, {"a"})
    \/ UpdateStatus
    \/ CompleteTask
    \/ DeleteTask
    \/ ReorderTask
    \/ IndentTask
    \/ ClearAllTasks
    \/ SaveSnapshot
    \/ Undo

SpecForest == Init /\ [][NextForest]_vars

(***************************************************************************)
(* SpecKeys: the frontend's keys for adding, completing, reordering and    *)
(* indenting tasks, for undoing and for moving the selection, on up to     *)
(* MaxKeyIds tasks.                                                        *)
(***************************************************************************)
NextKeys ==
    \/ OpenAdd
    \/ OpenAddChild
    \/ InputBarCancel
    \/ HandleAddSubmit(MaxKeyIds, {<<"a">>})
    \/ HandleAddChildSubmit(MaxKeyIds, {<<"a">>})
    \/ NavDown
    \/ NavUp
    \/ ReorderSelected
    \/ IndentSelected
    \/ ToggleDone
    \/ UndoKey
    \/ Quit
    \/ Launch

SpecKeys == Init /\ [][NextKeys]_vars

(***************************************************************************)
(* SpecCursor: every key of the frontend that moves the selection or       *)
(* changes the rows shown (navigation, reorder, add, delete, clear, undo,  *)
(* collapse), on up to MaxCursorIds tasks.                                 *)
(***************************************************************************)
NextCursor ==
    \/ NavDown
    \/ NavUp
    \/ JumpTop
    \/ JumpBottom
    \/ TabKey
    \/ ToggleCollapse
    \/ OpenAdd
    \/ OpenAddChild
    \/ InputBarCancel
    \/ HandleAddSubmit(MaxCursorIds, {<<"a">>})
    \/ HandleAddChildSubmit(MaxCursorIds, {<<"a">>})
    \/ ReorderSelected
    \/ DeleteSelected
    \/ OpenConfirmClear
    \/ ConfirmClear
    \/ RefuseClear
    \/ OpenHelp
    \/ CloseHelp
    \/ UndoKey
    \/ Quit
    \/ Launch

SpecCursor == Init /\ [][NextCursor]_vars

(***************************************************************************)
(* SpecTree: getTasks and flattenTasks on every record set of up to        *)
(* MaxTreeRows rows: the parent of a row is absent, any id of the set,     *)
(* the row itself or an id outside the set; positions may repeat; ids are  *)
(* numbered in rowid order.  The frontend starts on such a store, reads it *)
(* and collapses and expands the rows it shows.                            *)
(***************************************************************************)
RecordSets ==
    UNION {[1..n -> [id : 1..n, title : {"a"}, status : {"todo", "done"},
                     parent_id : {Null, Ghost} \cup (1..n), position : 0..MaxTreePos,
                     created_at : {0}, updated_at : {0}]] : n \in 0..MaxTreeRows}

InitTree ==
    /\ tasks \in {t \in RecordSets : \A i \in DOMAIN t : t[i].id = i}
    /\ undoStack = << >>
    /\ nextId = Len(tasks) + 1
    /\ clock = 0
    /\ last = Call("init", Null, Null, FALSE, FALSE)
    /\ mark = NoMark
    /\ app = AppMounted(<< >>)
    /\ aiPrompt = NoPrompt

NextTree ==
    \/ FirstRefresh
    \/ NavDown
    \/ NavUp
    \/ ToggleCollapse

SpecTree == InitTree /\ [][NextTree]_vars

(***************************************************************************)
(* The tree, read off the parent references.                               *)
(***************************************************************************)
ParentOf(t, id) == IF HasId(t, id) THEN RowOf(t, id).parent_id ELSE Null

\* The k-th ancestor of id (k >= 1), Null when the chain ends before it.
RECURSIVE Anc(_, _, _)
Anc(t, id, k) ==
    IF k = 0 THEN id
    ELSE LET a == Anc(t, id, k - 1)
         IN  IF a = Null THEN Null ELSE ParentOf(t, a)

AncestorsOf(t, id) == {Anc(t, id, k) : k \in 1..Len(t)} \ {Null}

DescendantsOf(t, id) == {x \in IdsOf(t) : id \in AncestorsOf(t, x)}

Acyclic(t) == \A x \in IdsOf(t) : x \notin AncestorsOf(t, x)

StatusOf(t, id) == RowOf(t, id).status

AllChildrenDone(t, p) ==
    \A i \in DOMAIN t : t[i].parent_id = p => t[i].status = "done"

\* The ancestors of id up to which every ancestor has all its children done.
DoneChain(t, id) ==
    {Anc(t, id, k) : k \in {n \in 1..Len(t) :
        \A j \in 1..n : Anc(t, id, j) # Null /\ AllChildrenDone(t, Anc(t, id, j))}}

(***************************************************************************)
(* The claims.                                                             *)
(***************************************************************************)

\* C2: moveTask(A, B) with B = A or B a descendant of A leaves the store
\* unchanged, and no task of a reachable store is its own ancestor.
C2_MoveKeepsForest ==
    [][ /\ ( /\ last'.op = "move"
             /\ HasId(tasks, last'.id)
             /\ last'.arg \in {last'.id} \cup DescendantsOf(tasks, last'.id) )
           => tasks' = tasks
        /\ Acyclic(tasks') ]_vars

\* C3: deleteTask(T) on a stored T removes exactly T and its transitive
\* descendants, leaves every other row as it was, and no remaining row has a
\* removed task among its ancestors.
C3_CascadeDelete ==
    [][ (last'.op = "delete" /\ HasId(tasks, last'.id)) =>
          LET gone == {last'.id} \cup DescendantsOf(tasks, last'.id)
          IN  /\ RowSet(tasks') = {r \in RowSet(tasks) : r.id \notin gone}
              /\ \A x \in IdsOf(tasks') :
                    /\ ParentOf(tasks', x) \notin gone
                    /\ AncestorsOf(tasks', x) \cap gone = {} ]_vars

\* C3 witness: a delete has removed a task together with two descendants.
C3_Witness ==
    /\ last.op = "delete"
    /\ last.changed = 3
    /\ tasks = << >>

\* C5: after completeTask(id) on a stored task, id is done and so is every
\* ancestor up to which each ancestor has all of its direct children done.
C5_Propagation ==
    [][ (last'.op = "complete" /\ HasId(tasks, last'.id)) =>
          /\ StatusOf(tasks', last'.id) = "done"
          /\ \A a \in DoneChain(tasks', last'.id) : StatusOf(tasks', a) = "done"
          /\ \A k \in 1..Len(tasks) :
                ( /\ \A j \in 1..k : Anc(tasks, last'.id, j) # Null
                  /\ \A j \in 1..k : \A i \in DOMAIN tasks :
                        ( /\ tasks[i].parent_id = Anc(tasks, last'.id, j)
                          /\ tasks[i].id # last'.id
                          /\ \A m \in 1..(j - 1) : tasks[i].id # Anc(tasks, last'.id, m) )
                        => tasks[i].status = "done" )
                => StatusOf(tasks', Anc(tasks, last'.id, k)) = "done" ]_vars

\* C5 witness: completing the leaf of the chain 3 -> 2 -> 1 has turned the
\* leaf and both of its ancestors to done in one call.
C5_Witness ==
    /\ last.op = "complete"
    /\ last.id = 3
    /\ last.steps = 2
    /\ last.changed = 3
    /\ ~last.raised
    /\ Len(tasks) = 3
    /\ ParentOf(tasks, 3) = 2 /\ ParentOf(tasks, 2) = 1 /\ ParentOf(tasks, 1) = Null
    /\ \A i \in DOMAIN tasks : tasks[i].status = "done"

\* C6: completeTask(id) changes the status of no task but id and the unbroken
\* chain of fully-done ancestors above it; with a sibling of id not done no
\* ancestor changes; siblings, descendants and unrelated tasks keep their
\* status; no task goes from done to todo.
C6_PropagationFrame ==
    [][ (last'.op = "complete" /\ HasId(tasks, last'.id)) =>
          LET id == last'.id
              turned == {x \in IdsOf(tasks) : StatusOf(tasks', x) # StatusOf(tasks, x)}
              siblings == {x \in IdsOf(tasks) \ {id} : ParentOf(tasks, x) = ParentOf(tasks, id)}
          IN  /\ IdsOf(tasks') = IdsOf(tasks)
              /\ turned \subseteq {id} \cup DoneChain(tasks', id)
              /\ (\E x \in siblings : StatusOf(tasks, x) # "done")
                    => turned \cap (AncestorsOf(tasks, id) \ {id}) = {}
              /\ turned \cap siblings = {}
              /\ turned \cap (DescendantsOf(tasks, id) \ {id}) = {}
              /\ turned \cap (IdsOf(tasks) \ ({id} \cup AncestorsOf(tasks, id))) = {}
              /\ \A x \in turned : StatusOf(tasks', x) = "done" ]_vars

\* C6 on stores whose parent relation has no cycle.
C6_FrameOnForests ==
    [][ (last'.op = "complete" /\ HasId(tasks, last'.id) /\ Acyclic(tasks)) =>
          LET id == last'.id
              turned == {x \in IdsOf(tasks) : StatusOf(tasks', x) # StatusOf(tasks, x)}
              siblings == {x \in IdsOf(tasks) \ {id} : ParentOf(tasks, x) = ParentOf(tasks, id)}
          IN  /\ IdsOf(tasks') = IdsOf(tasks)
              /\ turned \subseteq {id} \cup DoneChain(tasks', id)
              /\ (\E x \in siblings : StatusOf(tasks, x) # "done")
                    => turned \cap (AncestorsOf(tasks, id) \ {id}) = {}
              /\ turned \cap siblings = {}
              /\ turned \cap (DescendantsOf(tasks, id) \ {id}) = {}
              /\ turned \cap (IdsOf(tasks) \ ({id} \cup AncestorsOf(tasks, id))) = {}
              /\ \A x \in turned : StatusOf(tasks', x) = "done" ]_vars

\* C7: completeTask(id) returns after visiting at most as many ancestors as
\* there are tasks in the store.
C7_PropagationTerminates ==
    last.op = "complete" => (~last.raised /\ last.steps <= Len(tasks))

\* C1: saveSnapshot(); M; undo() for a single mutation M leaves the store
\* holding exactly the rows it held at the snapshot.
C1_UndoRoundTrip ==
    [][ (last'.op = "undo" /\ mark.armed /\ mark.n = 1) =>
          (~last'.raised /\ RowSet(tasks') = RowSet(mark.s)) ]_vars

\* C4: every task with a non-null parentId has the id of a stored task there.
C4_ReferentialIntegrity ==
    \A i \in DOMAIN tasks :
        tasks[i].parent_id # Null => HasId(tasks, tasks[i].parent_id)

\* C4 witness: an undo has brought back a task that has a parent.
C4_Witness ==
    /\ last.op = "undo"
    /\ last.ret
    /\ last.changed > 0
    /\ \E i \in DOMAIN tasks : tasks[i].parent_id # Null

\* C8: undo() on a non-empty stack does not raise, returns true and leaves the
\* store equal to the popped snapshot; on an empty stack it returns false and
\* changes neither the store nor the stack.
C8_UndoNeverFails ==
    [][ last'.op = "undo" =>
          IF undoStack # << >>
          THEN /\ ~last'.raised
               /\ last'.ret
               /\ tasks' = undoStack[Len(undoStack)]
               /\ undoStack' = SubSeq(undoStack, 1, Len(undoStack) - 1)
          ELSE /\ ~last'.raised
               /\ ~last'.ret
               /\ tasks' = tasks
               /\ undoStack' = undoStack ]_vars

\* The references of an operation that name a task.
RefsOf(op) ==
    ( CASE op.op = "add" -> {op.parentId}
        [] op.op = "move" -> {op.taskId, op.newParentId}
        [] OTHER -> {op.taskId} ) \ {Null, Empty}

\* The adds before operation i that carry x as their temporary id.
Mapped(ops, i, x) == {j \in 1..(i - 1) : ops[j].op = "add" /\ ops[j].id = x}

\* A reference of the batch names neither a stored task nor an earlier add.
Dangling(t, ops) ==
    \E i \in DOMAIN ops : \E x \in RefsOf(ops[i]) :
        x \notin IdsOf(t) /\ Mapped(ops, i, x) = {}

\* C9 as stated: a batch in which an operation raises, or in which a task id,
\* parent id or new parent id names no stored task and no earlier add, leaves
\* the store as it was.
C9_BatchAtomicity ==
    [][ (last'.op = "batch" /\ (last'.raised \/ Dangling(tasks, last'.batch)))
          => tasks' = tasks ]_vars

\* An operation other than an add whose task id names no stored task and no add
\* of the batch.
Idle(t, ops, op) ==
    /\ op.op # "add"
    /\ op.taskId \notin IdsOf(t)
    /\ \A j \in DOMAIN ops : ~(ops[j].op = "add" /\ ops[j].id = op.taskId)

\* C9 amended: a batch in which an operation raises leaves the store as it
\* was; a delete, move, update or done whose task id names no stored task
\* does not raise: the batch does what it does without that operation.
C9_RaisingBatchRollsBack ==
    [][ last'.op = "batch" =>
          LET ops == last'.batch
              rest == SelectSeq(ops, LAMBDA op : ~Idle(tasks, ops, op))
              r == applyOperations(tasks, nextId, rest, clock)
          IN  /\ last'.raised => tasks' = tasks
              /\ last'.raised = ~r.ok
              /\ tasks' = r.t ]_vars

\* C9 witness: a batch whose first operation adds a root task and whose second
\* adds a task under an id that names no task has raised and changed nothing.
C9_Witness ==
    /\ last.op = "batch"
    /\ last.raised
    /\ last.changed = 0
    /\ last.batch = <<OpAdd(Null, "a", Null), OpAdd(Null, "a", Ghost)>>

\* The real id of the add at place i of a batch that starts with nid.
RealOf(ops, i, nid) == nid + Cardinality({j \in 1..(i - 1) : ops[j].op = "add"})

\* The reference x of operation i as the claim resolves it: the real id of the
\* latest earlier add that carries x as its temporary id, and x itself
\* otherwise; with lax, an empty reference counts as an absent one.
Resolved(ops, i, x, nid, lax) ==
    IF x = Null THEN Null
    ELSE IF x = Empty THEN (IF lax THEN Null ELSE Empty)
    ELSE IF Mapped(ops, i, x) # {} THEN RealOf(ops, Max(Mapped(ops, i, x)), nid)
    ELSE x

\* The operations of a batch called one by one on the store with the resolved
\* references; a call that raises ends the run.
RECURSIVE Direct(_, _, _, _, _, _)
Direct(t, ops, i, nid, now, lax) ==
    IF i > Len(ops) THEN Res(t, TRUE)
    ELSE LET op == ops[i]
             R(x) == Resolved(ops, i, x, nid, lax)
             step == CASE op.op = "add" ->
                            addTask(t, RealOf(ops, i, nid), op.title, R(op.parentId), now)
                       [] op.op = "delete" -> Res(deleteTask(t, R(op.taskId)), TRUE)
                       [] op.op = "move" -> moveTask(t, R(op.taskId), R(op.newParentId), now)
                       [] op.op = "update" ->
                            Res(updateTitle(t, R(op.taskId), op.title, now), TRUE)
                       [] op.op = "done" ->
                            LET w == completeTask(t, R(op.taskId), now)
                            IN  Res(w.t, ~w.diverged)
         IN  IF step.ok THEN Direct(step.t, ops, i + 1, nid, now, lax) ELSE Res(t, FALSE)

Expected(t, ops, nid, now, lax) ==
    LET r == Direct(t, ops, 1, nid, now, lax)
    IN  IF r.ok THEN r.t ELSE t

C11_MultiRowAtomic ==
    [][ last'.op \in {"complete_io", "reorder_io", "undo_io", "batch_io"}
          => tasks' = tasks ]_vars

\* C11 on the operations that run inside a transaction.
C11_TransactionsAtomic ==
    [][ last'.op \in {"reorder_io", "undo_io", "batch_io"} => tasks' = tasks ]_vars

\* The successive calls of undo() that empty the stack: the call that pops
\* entry i restores that entry whatever the store holds, returns true and
\* leaves the i - 1 entries below it.
UndosSucceed(stack) ==
    \A i \in DOMAIN stack :
        \A t \in {<< >>, stack[i]} :
            LET r == undo(SubSeq(stack, 1, i), t)
            IN  r.ret /\ ~r.raised /\ r.t = stack[i] /\ r.stack = SubSeq(stack, 1, i - 1)

\* C12, the bound: the stack never holds more than MAX_UNDO snapshots, and a
\* snapshot pushed on a full stack drops the oldest one and nothing else.
C12_StackBounded ==
    [][ /\ Len(undoStack') <= MAX_UNDO
        /\ (last'.op = "snapshot" /\ Len(undoStack) = MAX_UNDO)
              => undoStack' = Append(Tail(undoStack), tasks) ]_vars

\* C12: the stack never holds more than MAX_UNDO snapshots; a snapshot pushed
\* on a full stack drops the oldest, after which exactly MAX_UNDO undos
\* succeed and the next one returns false.
C12_UndoBound ==
    [][ /\ Len(undoStack') <= MAX_UNDO
        /\ (last'.op = "snapshot" /\ Len(undoStack) = MAX_UNDO)
              => /\ undoStack' = Append(Tail(undoStack), tasks)
                 /\ Len(undoStack') = MAX_UNDO
                 /\ UndosSucceed(undoStack')
                 /\ ~undo(<< >>, tasks').ret ]_vars

\* C13: undo() returns true exactly when canUndo(), which is undoDepth() > 0;
\* it then restores the snapshot pushed last, takes exactly that snapshot off
\* the stack and pushes nothing, so that successive undos restore the
\* snapshots in the reverse of the order they were taken in.
C13_UndoLifo ==
    [][ last'.op = "undo" =>
          /\ canUndo(undoStack) = (undoDepth(undoStack) > 0)
          /\ last'.ret = canUndo(undoStack)
          /\ canUndo(undoStack) =>
                /\ tasks' = undoStack[undoDepth(undoStack)]
                /\ undoDepth(undoStack') = undoDepth(undoStack) - 1
                /\ undoStack' = SubSeq(undoStack, 1, undoDepth(undoStack) - 1)
          /\ ~canUndo(undoStack) => (tasks' = tasks /\ undoStack' = undoStack) ]_vars

\* C13 without the restore: every undo() takes exactly the newest snapshot off
\* the stack and pushes nothing, and when it returns true the store holds that
\* snapshot.
C13_PopsNewest ==
    [][ last'.op = "undo" =>
          /\ canUndo(undoStack) = (undoDepth(undoStack) > 0)
          /\ canUndo(undoStack) =>
                /\ undoStack' = SubSeq(undoStack, 1, undoDepth(undoStack) - 1)
                /\ last'.ret => tasks' = undoStack[undoDepth(undoStack)]
          /\ ~canUndo(undoStack) =>
                (~last'.ret /\ tasks' = tasks /\ undoStack' = undoStack) ]_vars

\* C14: deleteTask(id) leaves every remaining task as it was, its status
\* included, also when the children a parent is left with are all done.
C14_DeleteNoPropagation ==
    [][ last'.op = "delete" =>
          \A x \in IdsOf(tasks') :
              /\ HasId(tasks, x)
              /\ StatusOf(tasks', x) = StatusOf(tasks, x)
              /\ RowOf(tasks', x) = RowOf(tasks, x) ]_vars

\* C14 witness: a delete has removed task 3 and nothing else, and left the
\* todo task 1 with a single child, which is done.
C14_Witness ==
    /\ last.op = "delete"
    /\ last.id = 3
    /\ last.changed = 1
    /\ IdsOf(tasks) = {1, 2}
    /\ StatusOf(tasks, 1) = "todo"
    /\ ParentOf(tasks, 2) = 1
    /\ StatusOf(tasks, 2) = "done"

\* C15: a successful addTask(title, p) or moveTask(id, p) of a stored task
\* leaves the task in group p at position 1 + the largest position of the
\* group before the call (0 for an empty group), after every other member;
\* addTask stores a todo task under an id never handed out before; no other
\* task changes.
C15_InsertAppends ==
    [][ ( /\ last'.op \in {"add", "move"}
          /\ last'.ret
          /\ last'.op = "move" => HasId(tasks, last'.id) ) =>
          LET id == last'.id
              p == last'.arg
              group == {i \in DOMAIN tasks : tasks[i].parent_id = p}
              expected == IF group = {} THEN 0
                          ELSE Max({tasks[i].position : i \in group}) + 1
              row == RowOf(tasks', id)
          IN  /\ IdsOf(tasks') = IdsOf(tasks) \cup {id}
              /\ row.parent_id = p
              /\ row.position = expected
              /\ \A i \in DOMAIN tasks' :
                    (tasks'[i].parent_id = p /\ tasks'[i].id # id)
                       => tasks'[i].position < row.position
              /\ \A x \in IdsOf(tasks) \ {id} : RowOf(tasks', x) = RowOf(tasks, x)
              /\ last'.op = "add" =>
                    /\ id \notin Known
                    /\ ~HasId(tasks, id)
                    /\ row.status = "todo" ]_vars

\* C15 witness: a move has put a task behind another member of a group whose
\* largest position was above 0, and changed no other row.
C15_Witness ==
    /\ last.op = "move"
    /\ last.ret
    /\ last.changed = 1
    /\ HasId(tasks, last.id)
    /\ RowOf(tasks, last.id).parent_id = last.arg
    /\ RowOf(tasks, last.id).position = 2
    /\ \E i \in DOMAIN tasks :
          /\ tasks[i].id # last.id
          /\ tasks[i].parent_id = last.arg
          /\ tasks[i].position = 1

\* The members of x's sibling group that sort before x.
RankOf(t, x) ==
    Cardinality({i \in DOMAIN t : /\ t[i].parent_id = RowOf(t, x).parent_id
                                  /\ t[i].position < RowOf(t, x).position})

\* The sibling of x next to it in the direction, as a set (empty at the end
\* of the group).
Adjacent(t, x, direction) ==
    {y \in IdsOf(t) \ {x} :
        /\ RowOf(t, y).parent_id = RowOf(t, x).parent_id
        /\ RankOf(t, y) = RankOf(t, x) + (IF direction = "up" THEN -1 ELSE 1)}

\* C16: reorderTask(id, direction) returns true exactly when id is stored
\* and has a sibling next to it in that direction; it has then exchanged the
\* positions of the two, moved id by one rank, and changed no position or
\* parent of any other task; when it returns false the store is unchanged.
C16_ReorderSwaps ==
    [][ last'.op \in {"up", "down"} =>
          LET id == last'.id
              adj == IF HasId(tasks, id) THEN Adjacent(tasks, id, last'.op) ELSE {}
              step == IF last'.op = "up" THEN -1 ELSE 1
          IN  /\ last'.ret = (adj # {})
              /\ ~last'.raised
              /\ ~last'.ret => tasks' = tasks
              /\ last'.ret =>
                    /\ IdsOf(tasks') = IdsOf(tasks)
                    /\ \A y \in adj :
                          /\ RowOf(tasks', id).position = RowOf(tasks, y).position
                          /\ RowOf(tasks', y).position = RowOf(tasks, id).position
                    /\ RankOf(tasks', id) = RankOf(tasks, id) + step
                    /\ \A x \in IdsOf(tasks) :
                          RowOf(tasks', x).parent_id = RowOf(tasks, x).parent_id
                    /\ \A x \in IdsOf(tasks) \ ({id} \cup adj) :
                          RowOf(tasks', x) = RowOf(tasks, x) ]_vars

\* C16 witness: reorderTask(1, "down") among three root tasks has moved task
\* 1 from the first place to the middle one.
C16_Witness ==
    /\ last.op = "down"
    /\ last.id = 1
    /\ last.ret
    /\ last.changed = 2
    /\ Len(tasks) = 3
    /\ \A i \in DOMAIN tasks : tasks[i].parent_id = Null
    /\ RowOf(tasks, 2).position = 0
    /\ RowOf(tasks, 1).position = 1
    /\ RowOf(tasks, 3).position = 2

\* C17: indentTask(id, "indent") returns true exactly when id is stored and
\* has a sibling before it; id's parent is then that sibling, id comes after
\* every other child of it, and every other row, the rows of id's subtree
\* included, is as it was; when it returns false the store is unchanged.
C17_Indent ==
    [][ last'.op = "indent" =>
          LET id == last'.id
              prev == IF HasId(tasks, id) THEN Adjacent(tasks, id, "up") ELSE {}
          IN  /\ last'.ret = (prev # {})
              /\ ~last'.raised
              /\ ~last'.ret => tasks' = tasks
              /\ last'.ret =>
                    /\ IdsOf(tasks') = IdsOf(tasks)
                    /\ \A y \in prev : RowOf(tasks', id).parent_id = y
                    /\ \A i \in DOMAIN tasks' :
                          ( /\ tasks'[i].id # id
                            /\ tasks'[i].parent_id = RowOf(tasks', id).parent_id )
                          => tasks'[i].position < RowOf(tasks', id).position
                    /\ \A x \in IdsOf(tasks) \ {id} : RowOf(tasks', x) = RowOf(tasks, x)
                    /\ DescendantsOf(tasks, id) \subseteq DescendantsOf(tasks', id) ]_vars

\* C17 witness: indenting root task 2, which came after root task 1, has made
\* it the last child of task 1, behind task 1's child 3.
C17_Witness ==
    /\ last.op = "indent"
    /\ last.id = 2
    /\ last.ret
    /\ last.changed = 1
    /\ Len(tasks) = 3
    /\ RowOf(tasks, 1).parent_id = Null
    /\ RowOf(tasks, 3).parent_id = 1
    /\ RowOf(tasks, 2).parent_id = 1
    /\ RowOf(tasks, 3).position < RowOf(tasks, 2).position

\* C18: indentTask(id, "outdent") returns true exactly when id is stored and
\* has a parent; id's parent is then its former parent's parent (none when
\* the former parent was a root), id comes after every other member of that
\* group, and every other row is as it was; when it returns false the store
\* is unchanged.
C18_Outdent ==
    [][ last'.op = "outdent" =>
          LET id == last'.id
              parent == ParentOf(tasks, id)
          IN  /\ last'.ret = (parent # Null)
              /\ ~last'.raised
              /\ ~last'.ret => tasks' = tasks
              /\ last'.ret =>
                    /\ IdsOf(tasks') = IdsOf(tasks)
                    /\ RowOf(tasks', id).parent_id = ParentOf(tasks, parent)
                    /\ \A i \in DOMAIN tasks' :
                          ( /\ tasks'[i].id # id
                            /\ tasks'[i].parent_id = RowOf(tasks', id).parent_id )
                          => tasks'[i].position < RowOf(tasks', id).position
                    /\ \A x \in IdsOf(tasks) \ {id} : RowOf(tasks', x) = RowOf(tasks, x) ]_vars

\* C18 witness: outdenting task 3 of the chain 3 -> 2 -> 1 has made it the
\* last child of task 1, behind task 2.
C18_Witness ==
    /\ last.op = "outdent"
    /\ last.id = 3
    /\ last.ret
    /\ last.changed = 1
    /\ Len(tasks) = 3
    /\ RowOf(tasks, 1).parent_id = Null
    /\ RowOf(tasks, 2).parent_id = 1
    /\ RowOf(tasks, 3).parent_id = 1
    /\ RowOf(tasks, 2).position < RowOf(tasks, 3).position

\* s lists ids of t in strictly ascending position.
Ascending(t, s) ==
    \A i, j \in DOMAIN s :
        i < j => RowOf(t, s[i]).position < RowOf(t, s[j]).position

\* C19: in the tree of getTasks the children list of every task, and the
\* list of roots, holds exactly the members of that sibling group in
\* ascending position, and rows of the same group come in ascending position
\* in the flattened view.
C19_SiblingOrder ==
    LET tree == getTasks(tasks)
        flat == flatView(tasks)
    IN  /\ \A p \in IdsOf(tasks) :
              /\ {tree.children[p][k] : k \in DOMAIN tree.children[p]}
                    = {x \in IdsOf(tasks) : ParentOf(tasks, x) = p}
              /\ Ascending(tasks, tree.children[p])
        /\ {tree.roots[k] : k \in DOMAIN tree.roots}
              = {x \in IdsOf(tasks) : ParentOf(tasks, x) = Null}
        /\ Ascending(tasks, tree.roots)
        /\ \A i, j \in DOMAIN flat :
              (i < j /\ ParentOf(tasks, flat[i].id) = ParentOf(tasks, flat[j].id))
                 => RowOf(tasks, flat[i].id).position < RowOf(tasks, flat[j].id).position

\* C19 witness: after a reorder the children list of task 1 and the rows of
\* the flattened view run against the order of insertion.
C19_Witness ==
    /\ last.op = "up"
    /\ last.ret
    /\ HasId(tasks, 1)
    /\ getTasks(tasks).children[1] = <<3, 2>>
    /\ Len(flatView(tasks)) = 3
    /\ flatView(tasks)[2].id = 3
    /\ flatView(tasks)[3].id = 2

\* The calls that take the id of a task to act on.
TargetOps == {"rename", "status", "delete", "complete", "move",
              "up", "down", "indent", "outdent"}

\* C20: updateTask, deleteTask, completeTask, moveTask, reorderTask and
\* indentTask called with an id that is not stored do not raise and leave
\* every row as it was; reorderTask and indentTask return false.
C20_MissingIdNoOp ==
    [][ (last'.op \in TargetOps /\ ~HasId(tasks, last'.id)) =>
          /\ ~last'.raised
          /\ tasks' = tasks
          /\ last'.changed = 0
          /\ last'.op \in {"up", "down", "indent", "outdent"} => last'.ret = FALSE ]_vars

\* C20 witness: moveTask of a deleted task under a stored one has returned
\* and the store, which is not empty, has no row for it.
C20_Witness ==
    /\ last.op = "move"
    /\ ~HasId(tasks, last.id)
    /\ HasId(tasks, last.arg)
    /\ ~last.raised
    /\ last.changed = 0

\* C21: no stored task has an empty or whitespace-only title.
C21_TitlesNeverEmpty ==
    \A i \in DOMAIN tasks : trim(tasks[i].title) # << >>

\* The InputBar of add, add child and edit stores trimmed, non-empty titles
\* only.
C21_InputBarRejects ==
    [][ (app.inputMode \in {"add", "addChild", "edit"} /\ app'.inputMode = "none") =>
          \A id \in IdsOf(tasks') :
              (~HasId(tasks, id) \/ RowOf(tasks, id) # RowOf(tasks', id)) =>
                  /\ RowOf(tasks', id).title # << >>
                  /\ trim(RowOf(tasks', id).title) = RowOf(tasks', id).title ]_vars

\* C22: applyOperations runs only by Enter in phase 'preview', on the held
\* operations and after saveSnapshot; the phase is 'preview' only while the
\* held list is not empty; and an empty result of executeAI puts the prompt
\* that waits for it into phase 'error' and changes neither the store nor
\* the undo stack.
C22_ExplicitApply ==
    /\ [](aiPrompt.mounted /\ aiPrompt.phase = "preview" => aiPrompt.operations # << >>)
    /\ [][ /\ last'.op = "batch" =>
                 /\ aiPrompt.mounted /\ aiPrompt.phase = "preview"
                 /\ last'.batch = aiPrompt.operations
                 /\ last'.batch # << >>
                 /\ undoStack' = saveSnapshot(undoStack, tasks)
           /\ (last'.op = "ai_result" /\ ~last'.ret) =>
                 /\ tasks' = tasks
                 /\ undoStack' = undoStack
                 /\ (aiPrompt.mounted /\ aiPrompt.instance = last'.id) =>
                        aiPrompt'.phase = "error" ]_vars

\* C22 witness: a proposal has been applied from the preview: the store
\* changed, a snapshot is held and the prompt is closed.
C22_Witness ==
    /\ last.op = "batch"
    /\ last.ret
    /\ last.changed > 0
    /\ canUndo(undoStack)
    /\ ~aiPrompt.mounted
    /\ app.inputMode = "none"

\* C23: while the AI prompt is open only the apply (Enter in phase
\* 'preview') changes the store or the undo stack, and a result that arrives
\* after the prompt was closed changes neither.
C23_AbandonNoEffect ==
    [][ /\ (aiPrompt.mounted /\ last'.op # "batch") =>
                 (tasks' = tasks /\ undoStack' = undoStack)
        /\ last'.op = "ai_result" =>
                 /\ tasks' = tasks /\ undoStack' = undoStack /\ app' = app
                 /\ (~aiPrompt.mounted \/ aiPrompt.instance # last'.id) =>
                        /\ aiPrompt'.phase = aiPrompt.phase
                        /\ aiPrompt'.operations = aiPrompt.operations ]_vars

\* C23 witness: a result with operations has arrived after Escape closed the
\* prompt that asked for it; the store holds a task.
C23_Witness ==
    /\ last.op = "ai_result"
    /\ last.ret
    /\ ~aiPrompt.mounted
    /\ app.running
    /\ tasks # << >>

\* C24: when the instruction processor fails, executeAI does not reject and
\* what it resolves with differs from what it resolves with on a successful
\* reply of zero operations.
C24_FailureDistinct ==
    (last.op = "ai_result" /\ last.arg \in FailureKinds) =>
        /\ ~last.raised
        /\ \A k \in {"array", "object"} :
               executeAI(Reply(last.arg, << >>)) # executeAI(Reply(k, << >>))

\* executeAI never rejects, and resolves with no operations on every failing
\* reply.
C24_FailureIsEmpty ==
    (last.op = "ai_result" /\ last.arg \in FailureKinds) =>
        /\ ~last.raised
        /\ ~last.ret

\* The number of places of the list s that hold x.
Occ(s, x) == Cardinality({k \in DOMAIN s : s[k] = x})

\* C25: getTasks puts a task among the roots when its parent is null or not
\* in the record set, and otherwise in the children list of the task its
\* parent names; it puts it nowhere else and only once, whatever is
\* collapsed.
C25_TreeKeepsRecords ==
    LET t == app.tasks
        tree == getTasks(t)
    IN  \A x \in IdsOf(t) :
            LET p == RowOf(t, x).parent_id
                atRoot == p = Null \/ ~HasId(t, p)
            IN  /\ Occ(tree.roots, x) = (IF atRoot THEN 1 ELSE 0)
                /\ \A q \in IdsOf(t) :
                       Occ(tree.children[q], x) = (IF ~atRoot /\ q = p THEN 1 ELSE 0)

\* C25 witness: a task whose parent is outside the set stands among the
\* roots, and a collapsed task keeps its children list.
C25_Witness ==
    /\ last.op = "collapse"
    /\ \E x \in IdsOf(app.tasks) :
           /\ RowOf(app.tasks, x).parent_id = Ghost
           /\ Occ(getTasks(app.tasks).roots, x) = 1
    /\ \E c \in app.collapsedIds : getTasks(app.tasks).children[c] # << >>

\* The sibling list of x in the forest: the children list of its parent, or
\* the roots.
GroupOf(t, tree, x) ==
    IF RowOf(t, x).parent_id # Null /\ HasId(t, RowOf(t, x).parent_id)
    THEN tree.children[RowOf(t, x).parent_id]
    ELSE tree.roots

\* The ancestors of x in the forest, nearest first, when its chain of
\* parents ends at a root within n steps; <<Ghost>> when it does not.
RECURSIVE ChainOf(_, _, _)
ChainOf(t, x, n) ==
    LET p == RowOf(t, x).parent_id
    IN  IF p = Null \/ ~HasId(t, p) THEN << >>
        ELSE IF n = 0 THEN <<Ghost>>
        ELSE LET up == ChainOf(t, p, n - 1)
             IN  IF up = <<Ghost>> THEN up ELSE <<p>> \o up

\* C26: flattenTasks lists, in depth-first pre-order, exactly the tasks of
\* the forest none of whose proper ancestors is collapsed, each once; depth
\* is the number of ancestors, isLast marks the last of a sibling list,
\* hasChildren tells whether the children list is non-empty, and
\* totalCount / doneCount count the direct children and the done ones among
\* them, collapsed or not.
C26_Flatten ==
    LET t == app.tasks
        tree == getTasks(t)
        flat == visibleTasks(app)
        chain(x) == ChainOf(t, x, Len(t))
        shown(x) == /\ chain(x) # <<Ghost>>
                    /\ \A k \in DOMAIN chain(x) : chain(x)[k] \notin app.collapsedIds
        place(x) == CHOOSE k \in DOMAIN GroupOf(t, tree, x) : GroupOf(t, tree, x)[k] = x
    IN  /\ \A x \in IdsOf(t) :
              Cardinality({k \in DOMAIN flat : flat[k].id = x}) = (IF shown(x) THEN 1 ELSE 0)
        /\ \A k \in DOMAIN flat :
              LET e == flat[k]
                  kids == tree.children[e.id]
              IN  /\ e.depth = Len(chain(e.id))
                  /\ e.isLast = (place(e.id) = Len(GroupOf(t, tree, e.id)))
                  /\ e.hasChildren = (kids # << >>)
                  /\ e.totalCount = Len(kids)
                  /\ e.doneCount = Cardinality({c \in DOMAIN kids :
                                                  RowOf(t, kids[c]).status = "done"})
                  \* pre-order: a child follows its parent with only deeper
                  \* rows of that parent's subtree in between
                  /\ e.depth > 0 =>
                        \E j \in 1..(k - 1) :
                            /\ flat[j].id = RowOf(t, e.id).parent_id
                            /\ flat[j].depth = e.depth - 1
                            /\ \A m \in (j + 1)..(k - 1) : flat[m].depth >= e.depth
                  \* the first row is a root
                  /\ k = 1 => e.depth = 0
        \* siblings come in the order of their sibling list
        /\ \A i, j \in DOMAIN flat :
              (i < j /\ GroupOf(t, tree, flat[i].id) = GroupOf(t, tree, flat[j].id)
                     /\ flat[i].depth = flat[j].depth
                     /\ chain(flat[i].id) = chain(flat[j].id))
                 => place(flat[i].id) < place(flat[j].id)

\* C26 witness: a done child and a todo child are hidden under their
\* collapsed parent, whose row still counts them, and another row follows.
C26_Witness ==
    /\ last.op = "collapse"
    /\ Len(app.tasks) = MaxTreeRows
    /\ \E k \in DOMAIN visibleTasks(app) :
           /\ visibleTasks(app)[k].id \in app.collapsedIds
           /\ visibleTasks(app)[k].totalCount = 2
           /\ visibleTasks(app)[k].doneCount = 1
    /\ Len(visibleTasks(app)) = 1

\* C27: a task with a child goes from todo to done only by propagation: the
\* call is completeTask on one of its descendants, not on the task itself,
\* and all its children are done afterwards.
C27_DoneOnlyByPropagation ==
    [][ \A x \in IdsOf(tasks) \cap IdsOf(tasks') :
          ( /\ \E c \in IdsOf(tasks) : ParentOf(tasks, c) = x
            /\ StatusOf(tasks, x) = "todo"
            /\ StatusOf(tasks', x) = "done" )
          => /\ last'.op = "complete"
             /\ last'.id # x
             /\ x \in AncestorsOf(tasks, last'.id)
             /\ AllChildrenDone(tasks', x) ]_vars

\* The frontend's complete action goes through completeTask: whenever 'd'
\* turns the selected task done, the store is the one completeTask leaves.
C27_RoutesThroughCompleteTask ==
    [][ last'.op = "complete" =>
          /\ tasks' = completeTask(tasks, last'.id, clock).t
          /\ last'.id = selectedTask(app) ]_vars

\* C28: after J or K the selected row is the row of the task that was
\* selected before.
C28_SelectionFollows ==
    [][ last'.op \in {"up", "down"} => selectedTask(app') = last'.id ]_vars

\* When the reorder succeeds among siblings without visible descendants the
\* selection does follow the task.
C28_FollowsAmongLeaves ==
    [][ ( /\ last'.op \in {"up", "down"}
          /\ last'.ret
          /\ \A y \in Adjacent(tasks, last'.id, last'.op) \cup {last'.id} :
                 getTasks(tasks).children[y] = << >>
          /\ app.tasks = tasks )
        => selectedTask(app') = last'.id ]_vars

\* C29: no two tasks with the same parent have the same position, and a
\* reorderTask that returns true changes the order of the children lists
\* that getTasks builds.
C29_PositionsDistinct ==
    /\ [](\A i, j \in DOMAIN tasks :
            (i # j /\ tasks[i].parent_id = tasks[j].parent_id)
               => tasks[i].position # tasks[j].position)
    /\ [][ (last'.op \in {"up", "down"} /\ last'.ret) =>
              getTasks(tasks') # getTasks(tasks) ]_vars

\* C29 witness: undo has restored a store in which two siblings of task 1
\* stand in the order a reorder gave them.
C29_Witness ==
    /\ last.op = "undo"
    /\ last.ret
    /\ HasId(tasks, 1)
    /\ getTasks(tasks).children[1] = <<3, 2>>

\* C30: without moveTask to a chosen parent the parent relation has no
\* cycle, and getTasks followed by flattenTasks with nothing collapsed lists
\* every stored task exactly once.
C30_ForestUnderKeys ==
    /\ Acyclic(tasks)
    /\ \A x \in IdsOf(tasks) :
          Cardinality({k \in DOMAIN flatView(tasks) : flatView(tasks)[k].id = x}) = 1
    /\ Len(flatView(tasks)) = Len(tasks)

\* C30 witness: indents have built a chain of three tasks, and the list shows
\* it at depths 0, 1 and 2.
C30_Witness ==
    /\ last.op = "indent"
    /\ last.ret
    /\ Len(tasks) = MaxIds
    /\ Len(flatView(tasks)) = MaxIds
    /\ flatView(tasks)[MaxIds].depth = MaxIds - 1

(***************************************************************************)
(* C31: the cursor stays on a row.  In every state of the running frontend *)
(* (the clamping effect has run after each key), selectedIndex lies in     *)
(* 0..max(0, visibleCount - 1), and whenever at least one row is visible   *)
(* the selected task is one of the visible tasks.                          *)
(***************************************************************************)
C31_CursorOnRow ==
    app.running =>
        \E count \in {visibleCount(app)} :
            /\ app.selectedIndex \in 0..Max({0, count - 1})
            /\ count > 0 => selectedTask(app) \in IdsOf(app.tasks)

\* What the handlers and the clamping effect do keep: the selection is never
\* past the last visible row while rows are visible, and never below -1.
C31_CursorNotPastRows ==
    app.running =>
        \E count \in {visibleCount(app)} :
            /\ app.selectedIndex >= -1
            /\ count > 0 => app.selectedIndex <= count - 1

====
